---- MODULE Spec2Model ----
(***************************************************************************)
(* Model of project-leroy.  The online part: visitations.py (classes       *)
(* Visitations and Visitation), as driven either directly                  *)
(* (leroy-picamera.py, the unit tests) or through the filter of the frame  *)
(* loop of leroy.py, with the storage of photo.py and the high-resolution  *)
(* capture of leroy.py.  The offline part: visitation.py, the aggregator   *)
(* (parse, find_best_photo, find_all_species, find_species,                *)
(* create_species_observations, get_scientific_name, main).                *)
(***************************************************************************)
EXTENDS Integers, Sequences, FiniteSets, TLC

\* ------------------------------------------------------------------ bounds
\* longest detection list handed to one update() call
MaxObjs == 1
\* how many times the clock advances in a run
MaxTicks == 1
\* seconds that pass in one advance of the clock
TickSeconds == 300
\* qualifying detections counted per visitation window before the run stops
\* feeding birds (the counters of the code saturate at max + 1 long before)
MaxDetections == 13
\* Visitation objects created in a run
MaxVisitations == 2

\* ------------------------------------------------------- program constants
\* Visitations.photo_per_visitation_max (class attribute)
photo_per_visitation_max == 10
\* Visitations.full_photo_per_visitation_max (class attribute)
full_photo_per_visitation_max == 1
\* the literal percent bound of the bird test in update()
BirdPercentMin == 20
\* threshold=0.4 of filter_and_categorize_detections, in thousandths
FilterThreshold == 400
\* the visitation window S in seconds: the literal of the timeout comparison
visitation_max_seconds == 300

None == "None"
\* an unset time (None) and a set one
NoTime == <<>>
Time(t) == <<t>>
\* the Visitations objects of the process
Instances == {"A", "B"}
\* the one object of a process that constructs one (leroy.py, leroy-picamera.py)
LoopInstance == "A"

\* label file: id -> label (load_labels / the tests' {14: "bird"})
labels == [id \in {14, 16} |-> IF id = 14 THEN "bird" ELSE "cat"]

\* Detection objects Object(id, score, bbox): score in thousandths, bbox
\* (xmin, ymin, xmax, ymax) normalised, in tenths
Object(id, score, bbox) == [id |-> id, score |-> score, bbox |-> bbox]

RECURSIVE SeqsUpTo(_, _)
SeqsUpTo(S, n) ==
    IF n = 0 THEN {<<>>}
    ELSE LET shorter == SeqsUpTo(S, n - 1)
         IN shorter \cup {Append(q, x) : q \in {r \in shorter : Len(r) = n - 1}, x \in S}
\* the detection lists a frame can carry: birds of three scores and a cat
Frames ==
    SeqsUpTo({Object(14, s, <<2, 3, 6, 7>>) : s \in {850, 400, 205}}
                \cup {Object(16, 900, <<2, 3, 6, 7>>)}, MaxObjs)

VARIABLES
    Visitation_id,                    \* class attribute Visitation.id
    cls_bboxes,                       \* class attribute Visitations.bboxes (one list object)
    bboxes,                           \* instance attribute bboxes, Unset until reset() binds it
    visitations,                      \* self.visitations
    visitation_id,                    \* self.visitation_id
    photo_per_visitation_count,       \* self.photo_per_visitation_count
    full_photo_per_visitation_count,  \* self.full_photo_per_visitation_count
    started_tracking,                 \* self.started_tracking
    now,                              \* time.time(), seconds since the process started
    ticks,                            \* advances of the clock so far
    created,                          \* ids of the Visitation objects created so far
    startedAt,                        \* value of the local started_tracking of the last add()
    window,                           \* per instance: detections and submissions since the window opened
    last,                             \* the last call: operation, arguments, submissions, outcome
    crop,                             \* a detection box, the frame's shape and the crop update() takes of it
    saves,                            \* save threads started by capture() that have not run yet
    saved,                            \* what the last save() that ran did
    loop,                             \* the frame loop of leroy.py: whether it runs, what it last caught
    parsed,                           \* a path handed to parse() and what parse() made of it
    best,                             \* a list of records and the best photo selected from it
    agg,                              \* a list of records and what the aggregation functions make of it
    sci,                              \* a species name, a labels file and the scientific name looked up
    run,                              \* a directory tree and what a run of main() leaves behind
    visit,                            \* the Visitation class of visitations.py and one object of it
    hires,                            \* the high-resolution capture of the frame loop
    classify,                         \* a storage directory and what a run of classify.py makes of it
    camera,                           \* the CameraManager object and its capture thread
    poster                            \* the BlueskyPoster objects, their history file and the posts

\* the state of the Visitations objects and of their clock
visitVars == <<Visitation_id, cls_bboxes, bboxes, visitations, visitation_id,
               photo_per_visitation_count, full_photo_per_visitation_count,
               started_tracking, now, ticks, created, startedAt, window, last>>

\* the state of the photo store
storeVars == <<saves, saved>>

\* the state of the aggregator, visitation.py
aggVars == <<agg, sci, run>>

\* the state of classify.py, of the CameraManager and of the BlueskyPoster
lateVars == <<classify, camera, poster>>

vars == <<visitVars, crop, storeVars, loop, parsed, best, aggVars, visit, hires, lateVars>>

Unset == "Unset"

\* int(100 * obj.score), score in thousandths: truncation towards zero (for
\* the scores of Scores the float product is exact: 85, 40, 20, 90)
Percent(score) == (100 * score) \div 1000

\* the bird test of update(): labels.get(obj.id, obj.id) is "bird" and the
\* percent is above the literal bound
IsBird(obj) ==
    /\ (IF obj.id \in DOMAIN labels THEN labels[obj.id] ELSE ToString(obj.id)) = "bird"
    /\ Percent(obj.score) > BirdPercentMin

BoxedQuotaOpen_Strict(count) == count < photo_per_visitation_max
\* the quota tests of update()
BoxedQuotaOpen(count) == count <= photo_per_visitation_max
FullQuotaOpen(count) == count <= full_photo_per_visitation_max

\* self.bboxes: the instance attribute when bound, else the class attribute
SelfBboxes(own, cls) == IF own = Unset THEN cls ELSE own

NewBird_Always(own, cls) == TRUE
\* self.bboxes is empty: the test that guards add() in update()
NewBird(own, cls) == Len(SelfBboxes(own, cls)) = 0

\* Photo.capture(image, visitation_id, percent, photo_type)
Capture(type, vid, percent) == [photo_type |-> type, visitation_id |-> vid, score |-> percent]

\* Visitations.add: creates a Visitation, appends obj.bbox to self.bboxes
\* (in place: the class list when the instance has none of its own) and
\* returns visitation.id, which is the class attribute Visitation.id
add(s, obj) ==
    [s EXCEPT !.visitation_id = Visitation_id,
              !.cls = IF s.own = Unset THEN Append(s.cls, obj.bbox) ELSE s.cls,
              !.own = IF s.own = Unset THEN Unset ELSE Append(s.own, obj.bbox),
              !.created = Append(s.created, Visitation_id),
              !.startedAt = Time(now),
              !.opened = TRUE]

\* the for loop of update(): its body for the first detection, then the rest
RECURSIVE Loop(_, _)
Loop(s, objs) ==
    IF objs = <<>> THEN s
    ELSE LET obj == Head(objs)
             \* a visitation is opened for a bird when none is open
             Opened(s1) == IF NewBird(s1.own, s1.cls) THEN add(s1, obj) ELSE s1
             \* the boxed photo is submitted while the quota is open
             Submitted(s2) ==
                 IF BoxedQuotaOpen(s2.count)
                 THEN [s2 EXCEPT !.subs = Append(s2.subs,
                                     Capture("boxed", s2.visitation_id, Percent(obj.score))),
                                 !.count = s2.count + 1]
                 ELSE s2
         IN Loop(IF IsBird(obj)
                 THEN Submitted(Opened([s EXCEPT !.bird_detected = TRUE,
                                                 !.qualifying = s.qualifying + 1]))
                 ELSE s,
                 Tail(objs))

FullStep_NoIdTest(s, objs) ==
    IF FullQuotaOpen(s.full)
    THEN IF objs = <<>>
         THEN [s EXCEPT !.raised = TRUE]
         ELSE [s EXCEPT !.subs = Append(s.subs,
                            Capture("full", s.visitation_id, Percent(objs[Len(objs)].score))),
                        !.full = s.full + 1]
    ELSE s
\* the full-photo step after the loop; percent is the loop's last value and
\* is unbound when the list was empty (UnboundLocalError)
FullStep(s, objs) ==
    IF FullQuotaOpen(s.full) /\ s.visitation_id # None
    THEN IF objs = <<>>
         THEN [s EXCEPT !.raised = TRUE]
         ELSE [s EXCEPT !.subs = Append(s.subs,
                            Capture("full", s.visitation_id, Percent(objs[Len(objs)].score))),
                        !.full = s.full + 1]
    ELSE s

\* nothing detected or submitted yet in this window
EmptyWindow == [qualifying |-> 0, boxed |-> 0, full |-> 0]

Count(subs, type) == Cardinality({k \in DOMAIN subs : subs[k].photo_type = type})

\* Visitations.update(objs, frame, labels) on instance i; op names the caller
UpdateAs(op, i, objs, given) ==
    LET \* the fields and locals on entry
        entry == [visitation_id |-> visitation_id[i],
                  count |-> photo_per_visitation_count[i],
                  full |-> full_photo_per_visitation_count[i],
                  own |-> bboxes[i], cls |-> cls_bboxes,
                  created |-> created, startedAt |-> startedAt[i], subs |-> <<>>,
                  bird_detected |-> FALSE, qualifying |-> 0, opened |-> FALSE,
                  raised |-> FALSE]
        \* the timeout step reads the name last_tracked, which update() never binds
        TimeoutStep(f) ==
            IF ~f.raised /\ ~f.bird_detected /\ Len(visitations[i]) > 0
            THEN [f EXCEPT !.raised = TRUE]
            ELSE f
        \* the fields and the window when the call ends in s
        Return(s, w) ==
            /\ w.qualifying + s.qualifying <= MaxDetections
            /\ Len(s.created) <= MaxVisitations
            /\ visitation_id' = [visitation_id EXCEPT ![i] = s.visitation_id]
            /\ photo_per_visitation_count' = [photo_per_visitation_count EXCEPT ![i] = s.count]
            /\ full_photo_per_visitation_count' =
                   [full_photo_per_visitation_count EXCEPT ![i] = s.full]
            /\ bboxes' = [bboxes EXCEPT ![i] = s.own]
            /\ cls_bboxes' = s.cls
            /\ created' = s.created
            /\ startedAt' = [startedAt EXCEPT ![i] = s.startedAt]
            /\ window' = [window EXCEPT ![i] =
                             [qualifying |-> w.qualifying + s.qualifying,
                              boxed |-> w.boxed + Count(s.subs, "boxed"),
                              full |-> w.full + Count(s.subs, "full")]]
            /\ last' = [op |-> op, inst |-> i, objs |-> given,
                        subs |-> s.subs, raised |-> s.raised]
            /\ UNCHANGED <<Visitation_id, visitations, started_tracking, now, ticks>>
        Window(s) == Return(s, IF s.opened THEN EmptyWindow ELSE window[i])
    IN Window(TimeoutStep(FullStep(Loop(entry, objs), objs)))

\* update() called directly with the detector's list (leroy-picamera.py, tests)
Update(i, objs) == UpdateAs("update", i, objs, objs)

\* labels.get(obj.id, "").lower()
LabelLower(id) == IF id \in DOMAIN labels THEN labels[id] ELSE ""

\* the birds list of filter_and_categorize_detections(objs, labels, 0.4)
FilterBirds(objs) ==
    SelectSeq(objs, LAMBDA o : ~(o.score < FilterThreshold) /\ LabelLower(o.id) = "bird")

\* what can happen while the loop processes one frame: nothing special, the
\* camera returns no frame, get_detection_frame raises, hailo.detect raises,
\* capture_high_res_photo raises, the quit key is pressed, the user interrupts
LoopEvents == {"none", "no_frame", "camera_raises", "detect_raises", "capture_raises",
               "quit", "KeyboardInterrupt"}

ExceptClauses_NoneForException(exc) == IF exc = "KeyboardInterrupt" THEN "stopped" ELSE "crashed"
\* the except clauses of the loop body: KeyboardInterrupt breaks out of the
\* loop, any other Exception is logged and the loop continues
ExceptClauses(exc) == IF exc = "KeyboardInterrupt" THEN "stopped" ELSE "running"

\* one pass through the body of the while loop of main() in leroy.py on its
\* Visitations object: filter the detections, hand the birds to update(); an
\* exception of update() is caught by the loop. The high-resolution capture
\* the pass may request runs on the camera thread and writes no field of the
\* object.
FrameLoop(detections, event) ==
    /\ loop.state = "running"
    /\ IF event \in {"no_frame", "camera_raises", "detect_raises", "KeyboardInterrupt"}
       THEN \* update() is not reached
            /\ last' = [op |-> "skipped", inst |-> LoopInstance, objs |-> <<>>,
                        subs |-> <<>>, raised |-> FALSE]
            /\ loop' = IF event = "no_frame"
                       THEN loop
                       ELSE [loop EXCEPT !.state = ExceptClauses(event),
                                         !.caught = event,
                                         !.recovered = FALSE]
            /\ UNCHANGED <<Visitation_id, cls_bboxes, bboxes, visitations, visitation_id,
                           photo_per_visitation_count, full_photo_per_visitation_count,
                           started_tracking, now, ticks, created, startedAt, window>>
       ELSE /\ UpdateAs("frame", LoopInstance, FilterBirds(detections), detections)
            /\ loop' = IF last'.raised
                       THEN [state |-> ExceptClauses("UnboundLocalError"),
                             caught |-> "update_raises", recovered |-> FALSE]
                       ELSE IF event = "capture_raises" /\ FilterBirds(detections) # <<>>
                       THEN [state |-> ExceptClauses("Exception"),
                             caught |-> event, recovered |-> FALSE]
                       ELSE [state |-> IF event = "quit" THEN "stopped" ELSE "running",
                             caught |-> loop.caught,
                             recovered |-> loop.caught # "none"]

\* Visitations.reset()
Reset(i) ==
    /\ visitations' = [visitations EXCEPT ![i] = <<>>]
    /\ bboxes' = [bboxes EXCEPT ![i] = <<>>]
    /\ photo_per_visitation_count' = [photo_per_visitation_count EXCEPT ![i] = 0]
    /\ full_photo_per_visitation_count' = [full_photo_per_visitation_count EXCEPT ![i] = 0]
    /\ window' = [window EXCEPT ![i] = EmptyWindow]
    /\ last' = [op |-> "reset", inst |-> i, objs |-> <<>>,
                subs |-> <<>>, raised |-> FALSE]
    /\ UNCHANGED <<Visitation_id, cls_bboxes, visitation_id, started_tracking,
                   now, ticks, created, startedAt>>

\* time passes between two calls
Tick ==
    /\ ticks < MaxTicks
    /\ ticks' = ticks + 1
    /\ now' = now + TickSeconds
    /\ UNCHANGED <<Visitation_id, cls_bboxes, bboxes, visitations, visitation_id,
                   photo_per_visitation_count, full_photo_per_visitation_count,
                   started_tracking, created, startedAt, window, last>>

\* ------------------------------------------------------------ the photo store
\* save threads that can be waiting to run at one time
MaxPending == 2
\* qualifying detections fed to update() in a run of the store
MaxStoreBirds == 3
\* the literal of has_disk_space(), in tenths of a percent
DiskFullPercent == 950
\* the step of save() that fails, if one does: psutil.disk_usage raises,
\* mkdirs raises, reading frame.shape raises, cv2.imwrite raises, cv2.imwrite
\* returns False, PhotoMetadata.save_metadata returns False
SaveFaults == {"none", "disk_usage", "mkdirs", "shape", "imwrite_raises",
               "imwrite_false", "save_metadata"}

has_disk_space_Inclusive(percent) == percent <= DiskFullPercent
\* has_disk_space()
has_disk_space(percent) == percent < DiskFullPercent

\* the try block of save(): the files it wrote and whether an exception ended it
SaveTry(percent, fault) ==
    LET Ended(image, sidecar, exc) == [image |-> image, sidecar |-> sidecar, exc |-> exc]
    IN IF fault = "disk_usage" THEN Ended(FALSE, FALSE, TRUE)
       ELSE IF ~has_disk_space(percent) THEN Ended(FALSE, FALSE, FALSE)
       ELSE IF fault \in {"mkdirs", "shape", "imwrite_raises"} THEN Ended(FALSE, FALSE, TRUE)
       ELSE IF fault = "imwrite_false" THEN Ended(FALSE, TRUE, FALSE)
       ELSE IF fault = "save_metadata" THEN Ended(TRUE, FALSE, FALSE)
       ELSE Ended(TRUE, TRUE, FALSE)

save_Reraises(photo, percent, fault) ==
    LET r == SaveTry(percent, fault)
    IN [photo_type |-> photo.photo_type, usage |-> percent, fault |-> fault,
        image |-> r.image, sidecar |-> r.sidecar, raised |-> r.exc]
\* save(frame, visitation_id, detection_score, photo_type): the try block, and
\* the except clause that logs the exception and returns
save(photo, percent, fault) ==
    LET r == SaveTry(percent, fault)
    IN [photo_type |-> photo.photo_type, usage |-> percent, fault |-> fault,
        image |-> r.image, sidecar |-> r.sidecar, raised |-> FALSE]

\* PhotoMetadata.get_image_filename(photo_id, photo_type)
get_image_filename(photo_id, photo_type) ==
    IF photo_type = "full" THEN photo_id \o "_full.png" ELSE photo_id \o ".png"

\* update() on the one Visitations object, its Photo.capture calls included:
\* capture() starts one thread per submitted photo and returns
UpdateAndCapture(objs) ==
    /\ Update(LoopInstance, objs)
    /\ saves' = saves \o last'.subs
    /\ Len(saves') <= MaxPending
    /\ window'[LoopInstance].qualifying <= MaxStoreBirds
    /\ UNCHANGED saved

\* one of the started threads runs save() to its end
SaveThread(k, percent, fault) ==
    /\ k \in DOMAIN saves
    /\ saved' = save(saves[k], percent, fault)
    /\ saves' = SubSeq(saves, 1, k - 1) \o SubSeq(saves, k + 1, Len(saves))
    /\ UNCHANGED visitVars

\* ------------------------------------------------------- the crop of update()
\* no crop taken yet
NoRect == <<>>

\* update() takes the crop of the boxed photo of one detection
CropBoxed ==
    LET width == crop.shape[2]
        height == crop.shape[1]
        \* int(n / 10): truncation towards zero
        IntTrunc(n) == IF n >= 0 THEN n \div 10 ELSE -((-n) \div 10)
        \* x0, y0, x1, y1 = int(x0*width), int(y0*height), int(x1*width), int(y1*height)
        px == <<IntTrunc(crop.bbox[1] * width), IntTrunc(crop.bbox[2] * height),
                IntTrunc(crop.bbox[3] * width), IntTrunc(crop.bbox[4] * height)>>
        \* where an index k of a slice falls on an axis of length n: a negative
        \* index counts from the end, and the result is clipped to 0..n
        SliceIndex(k, n) ==
            LET j == IF k < 0 THEN k + n ELSE k
            IN IF j < 0 THEN 0 ELSE IF j > n THEN n ELSE j
    IN /\ crop.rect = NoRect
       \* frame[y0:y1, x0:x1]: the rectangle (x0, y0, x1, y1) the slice selects
       /\ crop' = [crop EXCEPT !.px = px,
                               !.rect = <<SliceIndex(px[1], width), SliceIndex(px[2], height),
                                          SliceIndex(px[3], width), SliceIndex(px[4], height)>>]
       /\ UNCHANGED <<visitVars, storeVars, loop, parsed, best, aggVars, visit, hires, lateVars>>

\* ----------------------------------------------- the filename parser, parse()
\* the part of s from position i to position j, "" when there is none
Part(s, i, j) == IF i > j THEN "" ELSE SubSeq(s, i, j)

\* the positions from i on at which pat occurs in s, and the first of them
Occurrences(s, pat, i) ==
    {j \in i..Len(s) : j + Len(pat) - 1 <= Len(s) /\ SubSeq(s, j, j + Len(pat) - 1) = pat}
First(positions) == CHOOSE j \in positions : \A k \in positions : j <= k

\* s.split(sep): the pieces of s between the occurrences of sep
RECURSIVE Split(_, _)
Split(s, sep) ==
    IF Occurrences(s, sep, 1) = {}
    THEN <<s>>
    ELSE LET j == First(Occurrences(s, sep, 1))
         IN <<Part(s, 1, j - 1)>> \o Split(Part(s, j + Len(sep), Len(s)), sep)

\* s.replace(pat, by): every occurrence, left to right
RECURSIVE Replace(_, _, _)
Replace(s, pat, by) ==
    IF Occurrences(s, pat, 1) = {}
    THEN s
    ELSE LET j == First(Occurrences(s, pat, 1))
         IN Part(s, 1, j - 1) \o by \o Replace(Part(s, j + Len(pat), Len(s)), pat, by)

\* the decimal digits
Digits == {"0", "1", "2", "3", "4", "5", "6", "7", "8", "9"}

IsDigits(s) == Len(s) > 0 /\ \A i \in 1..Len(s) : SubSeq(s, i, i) \in Digits

\* the number a string of digits denotes
RECURSIVE Number(_)
Number(s) ==
    LET c == SubSeq(s, Len(s), Len(s))
        value == CASE c = "0" -> 0 [] c = "1" -> 1 [] c = "2" -> 2 [] c = "3" -> 3
                   [] c = "4" -> 4 [] c = "5" -> 5 [] c = "6" -> 6 [] c = "7" -> 7
                   [] c = "8" -> 8 [] c = "9" -> 9
    IN IF Len(s) = 0 THEN 0 ELSE 10 * Number(Part(s, 1, Len(s) - 1)) + value

\* a field of n1 to n2 digits with a value in lo..hi
IsField(s, n1, n2, lo, hi) ==
    Len(s) >= n1 /\ Len(s) <= n2 /\ IsDigits(s) /\ Number(s) >= lo /\ Number(s) <= hi

\* datetime.strptime(s, '%Y-%m-%d %H-%M-%S') succeeds
StrptimeOk(s) ==
    LET Fields(d, t) ==
            /\ Len(d) = 3 /\ Len(t) = 3
            /\ IsField(d[1], 4, 4, 1, 9999) /\ IsField(d[2], 1, 2, 1, 12)
            /\ IsField(d[3], 1, 2, 1, 31)
            /\ IsField(t[1], 1, 2, 0, 23) /\ IsField(t[2], 1, 2, 0, 59)
            /\ IsField(t[3], 1, 2, 0, 61)
        Halves(halves) ==
            Len(halves) = 2 /\ Fields(Split(halves[1], "-"), Split(halves[2], "-"))
    IN Halves(Split(s, " "))

\* datetime.now().strftime('%Y-%m-%d') on the day of the run
Today == "2024-01-16"

\* datetime.now(), and the datetime strptime returns
Now == [given |-> FALSE, date |-> "", time |-> ""]
Strptime(date, time) == [given |-> TRUE, date |-> date, time |-> time]

\* the dictionary parse() returns, and the ValueError of strptime it lets through
Record(filename, datetime, det, vid, species, class) ==
    [raised |-> FALSE, filename |-> Replace(filename, "/var/www/html", ""),
     datetime |-> datetime, detection_score |-> det,
     visitation_id |-> vid, species |-> species,
     classification_score |-> class]
ValueError ==
    [raised |-> TRUE, filename |-> "", datetime |-> Now, detection_score |-> "",
     visitation_id |-> "", species |-> "", classification_score |-> ""]

\* parse(filename)
parse(filename) ==
    LET \* the branches on photo_type and len(data)
        Data(photo_type, data, date_from_path, visitation_id_from_path) ==
            IF photo_type = "boxed" /\ Len(data) >= 4
            THEN IF StrptimeOk(date_from_path \o " " \o data[1])
                 THEN Record(filename, Strptime(date_from_path, data[1]), data[2],
                             visitation_id_from_path, Replace(data[3], "-", " "), data[4])
                 ELSE ValueError
            ELSE IF photo_type = "full" /\ Len(data) >= 2
            THEN IF StrptimeOk(date_from_path \o " " \o data[1])
                 THEN Record(filename, Strptime(date_from_path, data[1]), data[2],
                             visitation_id_from_path, "", "0")
                 ELSE ValueError
            ELSE Record(filename, Now, "0", visitation_id_from_path, "", "0")
        \* photo_type = parts[0]; data = parts[data_start:], data_start 2 when
        \* parts[1] is "12mp" and 1 otherwise
        Parts(parts, date_from_path, visitation_id_from_path) ==
            Data(parts[1],
                 SubSeq(parts, (IF Len(parts) > 1 /\ parts[2] = "12mp" THEN 2 ELSE 1) + 1,
                        Len(parts)),
                 date_from_path, visitation_id_from_path)
        \* basename = path[-1]; date_from_path = path[-2], or today;
        \* visitation_id_from_path = basename.split('/')[0];
        \* parts = basename.replace('.png', '').split('_')
        Path(path) ==
            Parts(Split(Replace(path[Len(path)], ".png", ""), "_"),
                  IF Len(path) >= 2 THEN path[Len(path) - 1] ELSE Today,
                  Split(path[Len(path)], "/")[1])
    IN Path(Split(filename, "/"))

\* no fields: the path is not the encoding of a record
NoFields ==
    [date |-> "", time |-> "", detection_score |-> "", visitation_id |-> "",
     species |-> "", classification_score |-> ""]

\* parse() has not been called
NotParsed == [raised |-> FALSE, filename |-> "not parsed", datetime |-> Now,
              detection_score |-> "", visitation_id |-> "", species |-> "",
              classification_score |-> ""]

\* the aggregator calls parse() on the path of a file
Parse ==
    /\ parsed.out = NotParsed
    /\ parsed' = [parsed EXCEPT !.out = parse(parsed.path)]
    /\ UNCHANGED <<visitVars, crop, storeVars, loop, best, aggVars, visit, hires, lateVars>>

\* ------------------------------------------------------ best-photo selection
\* longest record list handed to the selection
MaxRecords == 2
\* lists of records of different files of one visitation directory: the two
\* scores as parse() returns them, strings of digits, and the clarity the
\* image of the file has
RecordLists ==
    LET PhotoNames == {"/classified/2024-01-15/abc123/boxed_14-30-25_85_robin_92.png",
                       "/classified/2024-01-15/abc123/boxed_14-30-26_85_robin_92.png",
                       "/classified/2024-01-15/abc123/full_14-30-25_85.png"}
        PhotoRecords == [filename : PhotoNames, classification_score : {"0", "88"},
                         detection_score : {"0", "88"}, clarity : {0, 100}]
    IN {l \in SeqsUpTo(PhotoRecords, MaxRecords) :
           \A j, k \in DOMAIN l : j # k => l[j].filename # l[k].filename}

\* "full" in record['filename']
IsFull(record) == Occurrences(record.filename, "full", 1) # {}

\* int(classification_score) + int(detection_score) + clarity(path)
TotalScore(record) ==
    Number(record.classification_score) + Number(record.detection_score) + record.clarity

\* the loop of find_best_photo over records[k..]: b holds best and best_index
RECURSIVE BestIndexFrom(_, _, _)
BestIndexFrom(records, k, b) ==
    IF k > Len(records) THEN b.index
    ELSE IF ~IsFull(records[k]) /\ b.best < TotalScore(records[k])
         THEN BestIndexFrom(records, k + 1, [best |-> TotalScore(records[k]), index |-> k])
         ELSE BestIndexFrom(records, k + 1, b)

\* find_best_photo(records): the index, counted from 1 (Python's 0 is 1 here)
find_best_photo(records) == BestIndexFrom(records, 1, [best |-> 0, index |-> 1])

\* no record: the None of find_best_photo_for_species
NoRecord == [filename |-> "None", classification_score |-> "", detection_score |-> "",
             clarity |-> 0]

\* the loop of find_best_photo_for_species over records[k..]
RECURSIVE BestRecordFrom(_, _, _)
BestRecordFrom(records, k, b) ==
    IF k > Len(records) THEN b.record
    ELSE IF ~IsFull(records[k]) /\ b.best < TotalScore(records[k])
         THEN BestRecordFrom(records, k + 1, [best |-> TotalScore(records[k]), record |-> records[k]])
         ELSE BestRecordFrom(records, k + 1, b)

\* find_best_photo_for_species(records)
find_best_photo_for_species(records) ==
    BestRecordFrom(records, 1, [best |-> 0, record |-> NoRecord])

\* nothing selected yet
NotSelected == [index |-> 0, record |-> NoRecord]

\* the aggregator selects the best photo of a group of records
SelectBest ==
    /\ ~best.done
    /\ best' = [best EXCEPT !.done = TRUE,
                            !.out = [index |-> find_best_photo(best.records),
                                     record |-> find_best_photo_for_species(best.records)]]
    /\ UNCHANGED <<visitVars, crop, storeVars, loop, parsed, aggVars, visit, hires, lateVars>>

\* ------------------------------------------- get_scientific_name()
\* [A-Z] and [a-z]
UpperCase == <<"A", "B", "C", "D", "E", "F", "G", "H", "I", "J", "K", "L", "M",
               "N", "O", "P", "Q", "R", "S", "T", "U", "V", "W", "X", "Y", "Z">>
LowerCase == <<"a", "b", "c", "d", "e", "f", "g", "h", "i", "j", "k", "l", "m",
               "n", "o", "p", "q", "r", "s", "t", "u", "v", "w", "x", "y", "z">>

\* str.lower(): the capitals replaced by their small letters
Lower(s) ==
    LET RECURSIVE LowerFrom(_, _)
        LowerFrom(r, k) ==
            IF k > Len(UpperCase) THEN r
            ELSE LowerFrom(Replace(r, UpperCase[k], LowerCase[k]), k + 1)
    IN LowerFrom(s, 1)

\* re.search(r'\(([A-Z][a-z]+ [a-z]+)\)', line) when parenthesised, else
\* re.search(r'\b([A-Z][a-z]+ [a-z]+)\b', line): match.group(1) of the
\* leftmost match in a sequence, the empty sequence for None
re_search(line, parenthesised) ==
    LET \* the character at position i, "" outside the line
        CharOr(i) == IF i >= 1 /\ i <= Len(line) THEN SubSeq(line, i, i) ELSE ""
        IsUpper(c) == \E k \in DOMAIN UpperCase : UpperCase[k] = c
        IsLower(c) == \E k \in DOMAIN LowerCase : LowerCase[k] = c
        \* \w of the regular expressions
        IsWord(c) == IsUpper(c) \/ IsLower(c) \/ c \in Digits \/ c = "_"
        \* [a-z]+ at position i: the last position of the longest run of small
        \* letters that starts at i, i - 1 when there is none
        RECURSIVE RunEnd(_)
        RunEnd(i) == IF IsLower(CharOr(i)) THEN RunEnd(i + 1) ELSE i - 1
        \* [A-Z][a-z]+ [a-z]+ at position i: the position of its last
        \* character, 0 when it does not match there (what follows each run is
        \* no small letter, so only the longest runs can match)
        Binomial(i) ==
            LET genus == RunEnd(i + 1)
                species == RunEnd(genus + 2)
            IN IF /\ IsUpper(CharOr(i))
                  /\ genus >= i + 1
                  /\ CharOr(genus + 1) = " "
                  /\ species >= genus + 2
               THEN species ELSE 0
        \* the positions at which the group matches
        matches ==
            IF parenthesised
            THEN {p + 1 : p \in {q \in Occurrences(line, "(", 1) :
                                    /\ Binomial(q + 1) > 0
                                    /\ CharOr(Binomial(q + 1) + 1) = ")"}}
            ELSE {p \in 1..Len(line) :
                     /\ Binomial(p) > 0
                     /\ ~IsWord(CharOr(p - 1))
                     /\ ~IsWord(CharOr(Binomial(p) + 1))}
    IN IF matches = {} THEN <<>>
       ELSE <<Part(line, First(matches), Binomial(First(matches)))>>

\* pat in s
Contains(s, pat) == pat = "" \/ Occurrences(s, pat, 1) # {}

\* the loop over the lines of the labels file, from the k-th line on
RECURSIVE ScanLines(_, _, _)
ScanLines(lines, k, common_name) ==
    LET \* common_name_normalized in line_lower
        found == Contains(Lower(lines[k]), Replace(Lower(common_name), " ", "-"))
        parens == re_search(lines[k], TRUE)
        bare == re_search(lines[k], FALSE)
    IN IF k > Len(lines) THEN "Unknown"
       ELSE IF found /\ parens # <<>> THEN parens[1]
       ELSE IF found /\ bare # <<>> /\ bare[1] # common_name THEN bare[1]
       ELSE ScanLines(lines, k + 1, common_name)

\* a labels_file_path argument: None, a path of no file, a file open() or the
\* decoding fails on, or a file and its lines
NoLabelsFile == [path |-> "None", exists |-> FALSE, readable |-> FALSE, lines |-> <<>>]
LabelsFile(exists, readable, lines) ==
    [path |-> "all_models/inat_bird_labels.txt", exists |-> exists,
     readable |-> readable, lines |-> lines]

\* get_scientific_name(common_name, labels_file_path)
get_scientific_name(common_name, labels_file) ==
    IF labels_file.path # "None" /\ labels_file.exists
    THEN IF labels_file.readable
         THEN ScanLines(labels_file.lines, 1, common_name)
         ELSE "Unknown"
    ELSE "Unknown"

\* no name has been looked up
NotResolved == "not resolved"

\* the aggregator looks up the scientific name of a species
Resolve ==
    /\ sci.out = NotResolved
    /\ sci' = [sci EXCEPT !.out = get_scientific_name(sci.common_name, sci.labels_file)]
    /\ UNCHANGED <<visitVars, crop, storeVars, loop, parsed, best, agg, run, visit, hires, lateVars>>

\* ------------------------------------- the aggregation functions of visitation.py
\* longest record list handed to the aggregation functions
MaxAggRecords == 4

\* a record as the aggregator holds it: the fields parse() fills and the
\* clarity of the image of the file; datetime is the second of the day
AggRecord(filename, datetime, det, vid, species, class, clarity) ==
    [filename |-> filename, datetime |-> datetime, detection_score |-> det,
     visitation_id |-> vid, species |-> species, classification_score |-> class,
     clarity |-> clarity]

\* lists of different records, in any order: two visitations, two species,
\* records of one second, a record whose scores and clarity are all 0, and
\* what parse() returns for a boxed image that has not been classified and
\* for a full image
AggRecordLists ==
    LET AggRecords ==
    {AggRecord("/classified/2024-01-15/v1/boxed_14-30-25_84_american-robin_92.png",
               52225, "84", "v1", "american robin", "92", 100),
     AggRecord("/classified/2024-01-15/v1/boxed_14-30-26_0_american-robin_0.png",
               52226, "0", "v1", "american robin", "0", 0),
     AggRecord("/classified/2024-01-15/v1/boxed_14-30-26_84_blue-jay_88.png",
               52226, "84", "v1", "blue jay", "88", 50),
     AggRecord("/classified/2024-01-15/v2/boxed_14-30-26_80_blue-jay_72.png",
               52226, "80", "v2", "blue jay", "72", 0),
     AggRecord("/classified/2024-01-15/v2/boxed_14-30-27_80.png",
               72000, "0", "v2", "", "0", 0),
     AggRecord("/classified/2024-01-15/v2/full_14-30-24_90.png",
               52224, "90", "v2", "", "0", 0)}
    IN {l \in SeqsUpTo(AggRecords, MaxAggRecords) :
           \A j, k \in DOMAIN l : j # k => l[j] # l[k]}

Earlier_NoTest(datetime, first_seen) == datetime
\* first_seen after the test record['datetime'] < first_seen
Earlier(datetime, first_seen) == IF datetime < first_seen THEN datetime ELSE first_seen

\* find_all_species(records): the entries with their avg_confidence, a
\* fraction num / den
find_all_species(records) ==
    LET \* one pass of the loop: dict is the dictionary with the entry of the
        \* species of the record at k, its keys in the order of their insertion
        CountRecord(dict, k, record) ==
            [dict EXCEPT ![k] =
               [species |-> @.species,
                count |-> @.count + 1,
                records |-> Append(@.records, record),
                first_seen |-> Earlier(record.datetime, @.first_seen),
                \* the test record['datetime'] > last_seen
                last_seen |-> IF record.datetime > @.last_seen
                              THEN record.datetime ELSE @.last_seen,
                \* int(classification_score) succeeds: digits only
                confidences |-> IF IsDigits(record.classification_score)
                                THEN Append(@.confidences,
                                            Number(record.classification_score))
                                ELSE @.confidences]]
        \* if species not in species_counts: the new entry
        Entry(species_counts, known, record) ==
            IF known = {}
            THEN CountRecord(Append(species_counts,
                                    [species |-> record.species, count |-> 0,
                                     records |-> <<>>,
                                     first_seen |-> record.datetime,
                                     last_seen |-> record.datetime,
                                     confidences |-> <<>>]),
                             Len(species_counts) + 1, record)
            ELSE CountRecord(species_counts, CHOOSE n \in known : TRUE, record)
        RECURSIVE CountRecords(_, _)
        CountRecords(species_counts, rest) ==
            IF rest = <<>> THEN species_counts
            ELSE CountRecords(Entry(species_counts,
                                    {k \in DOMAIN species_counts :
                                        species_counts[k].species = Head(rest).species},
                                    Head(rest)),
                              Tail(rest))
        RECURSIVE Sum(_)
        Sum(seq) == IF seq = <<>> THEN 0 ELSE Head(seq) + Sum(Tail(seq))
        Averaged(counted) ==
            [k \in DOMAIN counted |->
               [species |-> counted[k].species,
                count |-> counted[k].count,
                records |-> counted[k].records,
                first_seen |-> counted[k].first_seen,
                last_seen |-> counted[k].last_seen,
                confidences |-> counted[k].confidences,
                \* sum(confidences) / len(confidences) / 100.0, or 0.0
                avg_confidence |-> IF counted[k].confidences # <<>>
                                   THEN [num |-> Sum(counted[k].confidences),
                                         den |-> Len(counted[k].confidences) * 100]
                                   ELSE [num |-> 0, den |-> 1]]]
    IN Averaged(CountRecords(<<>>, records))

\* itertools.groupby(records, key): the runs of consecutive records of one
\* key, as <<key, run>> pairs; keys[k] is the key of records[k]
RECURSIVE GroupRuns(_, _, _)
GroupRuns(keys, records, groups) ==
    IF records = <<>> THEN groups
    ELSE IF groups # <<>> /\ groups[Len(groups)][1] = Head(keys)
         THEN GroupRuns(Tail(keys), Tail(records),
                        [groups EXCEPT ![Len(groups)][2] = Append(@, Head(records))])
         ELSE GroupRuns(Tail(keys), Tail(records),
                        Append(groups, <<Head(keys), <<Head(records)>>>>))

\* find_species(records): groupby on the species, then the loop over the
\* groups from the k-th on
find_species(records) ==
    LET groups == GroupRuns([k \in DOMAIN records |-> records[k].species], records, <<>>)
        RECURSIVE MostFrom(_, _)
        MostFrom(k, m) ==
            IF k > Len(groups) THEN m.species
            ELSE IF Len(groups[k][2]) > m.highest_count
                 THEN MostFrom(k + 1, [species |-> groups[k][1],
                                       highest_count |-> Len(groups[k][2])])
                 ELSE MostFrom(k + 1, m)
    IN MostFrom(1, [species |-> "", highest_count |-> 0])

\* list.sort(key=count, reverse=True): the list sorted by descending count,
\* elements of equal count in the order they had (the sort is stable, also
\* with reverse=True); element x is put into the sorted list s
InsertByCount_Ascending(s, x) ==
    LET before == {k \in DOMAIN s : s[k].count <= x.count}
        n == Cardinality(before)
    IN SubSeq(s, 1, n) \o <<x>> \o SubSeq(s, n + 1, Len(s))
InsertByCount(s, x) ==
    LET before == {k \in DOMAIN s : s[k].count >= x.count}
        n == Cardinality(before)
    IN SubSeq(s, 1, n) \o <<x>> \o SubSeq(s, n + 1, Len(s))

\* create_species_observations(records, labels_file_path): an observation
\* of each entry of find_all_species (confidence, the rounded avg_confidence,
\* is not carried), then the sort
create_species_observations(records, labels_file) ==
    LET Observation(data, best_photo) ==
            [common_name |-> data.species,
             scientific_name |-> get_scientific_name(data.species, labels_file),
             count |-> data.count,
             first_seen |-> data.first_seen,
             last_seen |-> data.last_seen,
             photos |-> [k \in DOMAIN data.records |->
                           [filename |-> data.records[k].filename,
                            is_best |-> data.records[k].filename = best_photo]],
             best_photo |-> best_photo]
        \* best_photo_record['filename'] if best_photo_record else
        \* data['records'][0]['filename']
        BestPhoto(data, best_photo_record) ==
            IF best_photo_record # NoRecord
            THEN best_photo_record.filename
            ELSE data.records[1].filename
        RECURSIVE SortByCount(_, _)
        SortByCount(sorted, rest) ==
            IF rest = <<>> THEN sorted
            ELSE SortByCount(InsertByCount(sorted, Head(rest)), Tail(rest))
        Observations(species_counts) ==
            SortByCount(<<>>,
                [k \in DOMAIN species_counts |->
                   Observation(species_counts[k],
                               BestPhoto(species_counts[k],
                                         find_best_photo_for_species(
                                             species_counts[k].records)))])
    IN Observations(find_all_species(records))

\* the functions have not been applied
NotAggregated == [all_species |-> <<>>, species |-> "not aggregated",
                  observations |-> <<>>, best_photo_index |-> 0]

\* the functions the grouping loop of main() applies to the records of a
\* group: find_best_photo, create_species_observations, find_all_species,
\* find_species
AggregateGroup ==
    /\ ~agg.done
    /\ agg' = [agg EXCEPT
                 !.done = TRUE,
                 !.out = [all_species |-> find_all_species(agg.records),
                          species |-> find_species(agg.records),
                          observations |-> create_species_observations(agg.records, NoLabelsFile),
                          best_photo_index |-> find_best_photo(agg.records)]]
    /\ UNCHANGED <<visitVars, crop, storeVars, loop, parsed, best, sci, run, visit, hires, lateVars>>

\* ------------------------------------------------- the aggregator run, main()
\* most files in a directory of the input set
MaxFiles == 3

\* the value of a key of a sidecar, and a key the sidecar does not have
Value(x) == <<x>>
Missing == <<>>
\* no sidecar next to the image: the None of find_metadata_for_image
NoMetadata == [photo_type |-> "None", datetime |-> Missing, visitation_id |-> Missing,
               score |-> Missing, classifications |-> Missing]
\* the JSON of a sidecar: datetime is the datetime its ISO string denotes (the
\* second it names), score the detection score in thousandths,
\* classifications a list of [species, score] entries, score in thousandths
\* (no list when the key is missing)
Metadata(photo_type, datetime, vid, score, classifications) ==
    [photo_type |-> photo_type, datetime |-> datetime, visitation_id |-> vid,
     score |-> score, classifications |-> classifications]

\* a file of a directory: its name, the sidecar find_metadata_for_image finds
\* for it, and the clarity clarity_from_path computes of it
File(name, metadata, clarity) == [name |-> name, metadata |-> metadata, clarity |-> clarity]

\* s.endswith(suffix)
EndsWith(s, suffix) ==
    Len(s) >= Len(suffix) /\ SubSeq(s, Len(s) - Len(suffix) + 1, Len(s)) = suffix

\* len(basename.replace('.png', '').replace('_full', '').split('-')) == 5
is_uuid_format(basename) ==
    Len(Split(Replace(Replace(basename, ".png", ""), "_full", ""), "-")) = 5

\* the seconds from the start of the year 2000 to a datetime of parse(), in
\* months of 31 days: ordered as the datetimes are
Stamp(datetime) ==
    LET d == Split(IF datetime.given THEN datetime.date ELSE Today, "-")
        t == Split(IF datetime.given THEN datetime.time ELSE "20-00-00", "-")
    IN (((Number(d[1]) - 2000) * 12 + Number(d[2])) * 31 + Number(d[3])) * 86400
          + Number(t[1]) * 3600 + Number(t[2]) * 60 + Number(t[3])

\* the record main() builds from a sidecar of photo_type "boxed", or the
\* exception that leaves main()
MetadataRecord(filepath, file) ==
    LET m == file.metadata
        classified == m.classifications # <<>>
        top_class == m.classifications[1]
    IN IF m.datetime = Missing \/ m.score = Missing \/ m.visitation_id = Missing
       THEN [raised |-> TRUE, what |-> "KeyError"]
       ELSE [raised |-> FALSE,
             record |-> AggRecord(Replace(filepath, "/var/www/html", ""), m.datetime[1],
                                  ToString(Percent(m.score[1])), m.visitation_id[1],
                                  IF classified THEN Replace(top_class.species, "-", " ") ELSE "",
                                  IF classified THEN ToString(Percent(top_class.score)) ELSE "0",
                                  file.clarity)]

\* the record main() takes from parse()
ParsedRecord(filepath, file) ==
    LET Of(p) ==
            IF p.raised THEN [raised |-> TRUE, what |-> "ValueError"]
            ELSE [raised |-> FALSE,
                  record |-> AggRecord(p.filename, Stamp(p.datetime), p.detection_score,
                                       p.visitation_id, p.species, p.classification_score,
                                       file.clarity)]
    IN Of(parse(filepath))

\* what main() collects of a directory
Collected(boxed_records, full_images) ==
    [raised |-> FALSE, what |-> "", boxed_records |-> boxed_records, full_images |-> full_images]
Crashed(what) == [raised |-> TRUE, what |-> what, boxed_records |-> <<>>, full_images |-> <<>>]

\* the loop over the files of a directory: one pass for the first file, then
\* the rest
RECURSIVE ReadFiles(_, _, _)
ReadFiles(c, dirpath, files) ==
    LET \* boxed_records.append(record), or the exception of building it
        Boxed(r) ==
            IF r.raised THEN Crashed(r.what)
            ELSE Collected(Append(c.boxed_records, r.record), c.full_images)
        \* filepath is os.path.join(dirpath, filename)
        Pass(file, filepath, basename) ==
            IF ~EndsWith(filepath, ".png") THEN c
            ELSE IF is_uuid_format(basename)
            THEN IF file.metadata = NoMetadata THEN c
                 ELSE IF file.metadata.photo_type = "boxed"
                 THEN Boxed(MetadataRecord(filepath, file))
                 ELSE IF file.metadata.photo_type = "full"
                 THEN Collected(c.boxed_records, Append(c.full_images, filepath))
                 ELSE c
            ELSE IF Contains(basename, "boxed")
            THEN Boxed(ParsedRecord(filepath, file))
            ELSE IF Contains(basename, "full")
            THEN Collected(c.boxed_records, Append(c.full_images, filepath))
            ELSE c
    IN IF files = <<>> \/ c.raised THEN c
       ELSE ReadFiles(Pass(Head(files), dirpath \o "/" \o Head(files).name,
                           Head(files).name),
                      dirpath, Tail(files))

\* prefer_12mp(filenames)
prefer_12mp(filenames) ==
    LET high_res == SelectSeq(filenames, LAMBDA f : Contains(f, "_12mp"))
        standard == SelectSeq(filenames, LAMBDA f : ~Contains(f, "_12mp"))
    IN IF filenames = <<>> THEN filenames
       ELSE IF high_res # <<>> THEN high_res ELSE standard

\* the fallback of main() when the loop collected no boxed record: the files
\* whose path holds "full" or "boxed", prefer_12mp, parse()
ReadFallback(c, dirpath, files) ==
    LET filepaths == [k \in DOMAIN files |-> dirpath \o "/" \o files[k].name]
        at(f) == files[CHOOSE k \in DOMAIN files : filepaths[k] = f]
        Parsed(boxed_images_old) ==
            [k \in DOMAIN boxed_images_old |->
               ParsedRecord(boxed_images_old[k], at(boxed_images_old[k]))]
        Records(records, full_images_old) ==
            IF \E k \in DOMAIN records : records[k].raised
            THEN Crashed("ValueError")
            ELSE Collected([k \in DOMAIN records |-> records[k].record],
                           c.full_images \o full_images_old)
    IN Records(Parsed(prefer_12mp(SelectSeq(filepaths, LAMBDA f : Contains(f, "boxed")))),
               prefer_12mp(SelectSeq(filepaths, LAMBDA f : Contains(f, "full"))))

\* sorted(parsed, key=itemgetter('datetime')): ascending, records of one
\* datetime in the order they had
RECURSIVE SortByDatetime(_, _)
SortByDatetime(sorted, rest) ==
    LET x == Head(rest)
        n == Cardinality({k \in DOMAIN sorted : sorted[k].datetime <= x.datetime})
    IN IF rest = <<>> THEN sorted
       ELSE SortByDatetime(SubSeq(sorted, 1, n) \o <<x>> \o SubSeq(sorted, n + 1, Len(sorted)),
                           Tail(rest))

\* find_full_image(full_images, visitation_id)
find_full_image(full_images, vid) ==
    LET matching == SelectSeq(full_images, LAMBDA f : Contains(f, vid))
        high_res == SelectSeq(matching, LAMBDA f : Contains(f, "_12mp"))
    IN IF full_images = <<>> \/ matching = <<>> THEN ""
       ELSE IF high_res # <<>> THEN high_res[1] ELSE matching[1]

\* the grouping loop of main() over the groups from the g-th on
RECURSIVE GroupLoop(_, _, _, _, _)
GroupLoop(visits, groups, g, full_images, labels_file) ==
    LET \* the visitation main() builds of the records of the group of key k
        Visitation(k, records) ==
            [visitation_id |-> k,
             start_datetime |-> records[1].datetime,
             end_datetime |-> records[Len(records)].datetime,
             duration |-> records[Len(records)].datetime - records[1].datetime,
             species_observations |-> create_species_observations(records, labels_file),
             species_count |-> Len(find_all_species(records)),
             species |-> find_species(records),
             records |-> records,
             best_photo |-> records[find_best_photo(records)].filename,
             full_image |-> Replace(find_full_image(full_images, k), "/var/www/html", ""),
             datetime |-> records[1].datetime]
        \* visitations = sorted(visitations, key=datetime, reverse=True):
        \* descending, visitations of one datetime in the order they had
        Sorted(visitation, n) ==
            SubSeq(visits, 1, n) \o <<visitation>> \o SubSeq(visits, n + 1, Len(visits))
        Group(k, records) ==
            \* int() of a score of a record raises ValueError
            IF \E r \in DOMAIN records :
                   \/ ~IsDigits(records[r].classification_score)
                   \/ ~IsDigits(records[r].detection_score)
            THEN [raised |-> TRUE, what |-> "ValueError", visitations |-> visits]
            ELSE GroupLoop(Sorted(Visitation(k, records),
                                  Cardinality({v \in DOMAIN visits :
                                      visits[v].datetime >= records[1].datetime})),
                           groups, g + 1, full_images, labels_file)
    IN IF g > Len(groups) THEN [raised |-> FALSE, what |-> "", visitations |-> visits]
       ELSE Group(groups[g][1], groups[g][2])

\* the loop of main() over the directories of os.walk from the d-th on
RECURSIVE Walk(_, _, _, _)
Walk(visits, tree, d, labels_file) ==
    LET \* the grouping of the records of a directory, sorted by datetime
        Grouped(birds, full_images) ==
            GroupLoop(visits,
                      GroupRuns([k \in DOMAIN birds |-> birds[k].visitation_id], birds, <<>>),
                      1, full_images, labels_file)
        Sorted(c) ==
            IF c.raised THEN [raised |-> TRUE, what |-> c.what, visitations |-> visits]
            ELSE Grouped(SortByDatetime(<<>>, c.boxed_records), c.full_images)
        \* the fallback when the loop over the files collected no boxed record
        Read(read, dir) ==
            Sorted(IF ~read.raised /\ read.boxed_records = <<>>
                   THEN ReadFallback(read, dir.dirpath, dir.files) ELSE read)
        \* the body of the loop for one directory
        Body(dir) == Read(ReadFiles(Collected(<<>>, <<>>), dir.dirpath, dir.files), dir)
        Rest(w) == IF w.raised THEN w ELSE Walk(w.visitations, tree, d + 1, labels_file)
    IN IF d > Len(tree) THEN [raised |-> FALSE, what |-> "", visitations |-> visits]
       ELSE Rest(Body(tree[d]))

\* main() without --date: what it leaves behind, visitations.json and the
\* printed summary, or the exception it ends with
main(tree, labels_file) ==
    LET Out(w) ==
            IF w.raised
            THEN [json_written |-> FALSE, summary_printed |-> FALSE, raised |-> w.what,
                  visitations |-> <<>>]
            ELSE [json_written |-> TRUE, summary_printed |-> TRUE, raised |-> "",
                  visitations |-> w.visitations]
    IN Out(Walk(<<>>, tree, 1, labels_file))

Dir(dirpath, files) == [dirpath |-> dirpath, files |-> files]

\* the directory trees main() is run over: one directory, or the date
\* directory and a visitation directory of it with a file each
Trees ==
    LET DateDir == "/var/www/html/classified/2024-01-15"
        VisitationDir == "/var/www/html/classified/2024-01-15/v1"
        \* the datetime "2024-01-15T14:30:26" of a sidecar
        SidecarTime == Stamp(Strptime("2024-01-15", "14-30-26"))
        \* the files: legacy names (one with its 12MP duplicate, one without), a
        \* full image and its 12MP duplicate, images with sidecars of two
        \* visitations written in one second, a sidecar without "datetime", an
        \* image without sidecar, and a file that is no image
        FilePool ==
            {File("boxed_14-30-25_84_robin_92.png", NoMetadata, 100),
             File("boxed_12mp_14-30-25_84_robin_92.png", NoMetadata, 100),
             File("boxed_14-30-26_80_blue-jay_88.png", NoMetadata, 50),
             File("full_14-30-25_84.png", NoMetadata, 0),
             File("full_12mp_14-30-25_84.png", NoMetadata, 0),
             File("11111111-aaaa-4aaa-8aaa-aaaaaaaaaaaa.png",
                  Metadata("boxed", Value(SidecarTime), Value("v1"), Value(840),
                           <<[species |-> "american-robin", score |-> 920]>>), 100),
             File("22222222-bbbb-4bbb-8bbb-bbbbbbbbbbbb.png",
                  Metadata("boxed", Value(SidecarTime), Value("v2"), Value(800), <<>>), 50),
             File("33333333-cccc-4ccc-8ccc-cccccccccccc.png",
                  Metadata("boxed", Value(SidecarTime), Value("v1"), Value(840), <<>>), 0),
             File("44444444-dddd-4ddd-8ddd-dddddddddddd.png",
                  Metadata("boxed", Missing, Value("v1"), Value(840), <<>>), 0),
             File("55555555-eeee-4eee-8eee-eeeeeeeeeeee.png", NoMetadata, 0),
             File("notes.txt", NoMetadata, 0)}
        \* the file lists of a directory: different files, in any order of
        \* enumeration
        FileLists ==
            {l \in SeqsUpTo(FilePool, MaxFiles) :
                \A j, k \in DOMAIN l : j # k => l[j] # l[k]}
    IN {<<Dir(d, l)>> : d \in {DateDir, VisitationDir}, l \in FileLists}
          \cup {<<Dir(DateDir, <<f>>), Dir(VisitationDir, <<g>>)>> : f, g \in FilePool}

\* main() has not run
NotRun == [json_written |-> FALSE, summary_printed |-> FALSE, raised |-> "not run",
           visitations |-> <<>>]

\* one run of the aggregator over a directory tree
Aggregate ==
    /\ ~run.done
    /\ run' = [run EXCEPT !.done = TRUE, !.out = main(run.tree, run.labels_file)]
    /\ UNCHANGED <<visitVars, crop, storeVars, loop, parsed, best, agg, sci, visit, hires, lateVars>>

\* ------------------------------------------------ the classification pass
\* most files in the storage directory of the input set
MaxStored == 2

\* get_new_dir(dirpath), "" when dirpath has not four sections
get_new_dir(dirpath) ==
    LET Of(path_sections) ==
            IF Len(path_sections) = 4
            THEN "/var/www/html/classified/" \o path_sections[3] \o "/" \o path_sections[4]
            ELSE ""
    IN Of(Split(dirpath, "/"))

\* what hailo.classify(img) returns, or that Image.open or it raises: no
\* result above the threshold, or the top result with its label and its score
\* in thousandths
Results ==
    {[raises |-> TRUE, top |-> <<>>], [raises |-> FALSE, top |-> <<>>],
     [raises |-> FALSE, top |-> <<[label |-> "american robin", score |-> 920]>>],
     [raises |-> FALSE, top |-> <<[label |-> "background", score |-> 400]>>]}

\* classify.py has not run; what it keeps while it runs: the files it moved
\* to the classified tree, the files it left, the two sets of processed base
\* names, and whether the directory new_dir exists
NotClassified ==
    [moved |-> <<>>, left |-> <<>>, processed_boxed |-> {}, processed_full |-> {},
     new_dir_exists |-> FALSE]

\* the body of the loop of main() of classify.py over the files of a
\* directory, without --dryrun, from the k-th file on: results[k] is what
\* the classifier makes of the k-th file
RECURSIVE ClassifyFiles(_, _, _, _, _)
ClassifyFiles(c, dirpath, files, results, k) ==
    LET \* shutil.move of the image to new_dir under newname, with the
        \* sidecar save_metadata writes there
        Moved(file, newname, metadata) ==
            [c EXCEPT !.moved = Append(@, File(newname, metadata, file.clarity)),
                      !.new_dir_exists = TRUE]
        Left(file) == [c EXCEPT !.left = Append(@, file)]
        \* the branch of a name that holds "boxed"
        Boxed(file, filename, raises, top) ==
            IF is_uuid_format(filename)
            THEN IF file.metadata = NoMetadata \/ raises \/ top = <<>> THEN Left(file)
                 ELSE Moved(file, filename,
                            [file.metadata EXCEPT !.classifications =
                                Append(@, [species |-> Replace(top[1].label, " ", "-"),
                                           score |-> top[1].score])])
            ELSE LET base_name == Replace(Replace(Replace(filename, "_12mp", ""),
                                                  "boxed", ""), ".png", "")
                 IN IF base_name \in c.processed_boxed /\ ~Contains(filename, "_12mp")
                    THEN Left(file)
                    ELSE IF ~raises /\ top # <<>> /\ top[1].label # "background"
                    THEN [Moved(file,
                                Replace(filename, ".png",
                                        "_" \o Replace(top[1].label, " ", "-") \o "_"
                                            \o ToString(Percent(top[1].score)) \o ".png"),
                                file.metadata)
                            EXCEPT !.processed_boxed = @ \cup {base_name}]
                    ELSE [Left(file) EXCEPT !.processed_boxed = @ \cup {base_name}]
        \* the branch of a name that holds "full"
        Full(file, filename) ==
            IF is_uuid_format(filename)
            THEN IF file.metadata # NoMetadata /\ get_new_dir(dirpath) # ""
                 THEN Moved(file, filename, file.metadata)
                 ELSE Left(file)
            ELSE LET base_name == Replace(Replace(Replace(filename, "_12mp", ""),
                                                  "full", ""), ".png", "")
                 IN IF base_name \in c.processed_full /\ ~Contains(filename, "_12mp")
                    THEN Left(file)
                    ELSE IF get_new_dir(dirpath) # "" /\ c.new_dir_exists
                    THEN [Moved(file, filename, file.metadata)
                            EXCEPT !.processed_full = @ \cup {base_name}]
                    ELSE [Left(file) EXCEPT !.processed_full = @ \cup {base_name}]
        Pass(file, filename, result) ==
            IF Contains(filename, "boxed") /\ EndsWith(filename, ".png")
            THEN Boxed(file, filename, result.raises, result.top)
            ELSE IF Contains(filename, "full") /\ EndsWith(filename, ".png")
            THEN Full(file, filename)
            ELSE Left(file)
    IN IF k > Len(files) THEN c
       ELSE ClassifyFiles(Pass(files[k], files[k].name, results[k]),
                          dirpath, files, results, k + 1)

\* one run of classify.py --dir over a storage directory
Classify ==
    /\ ~classify.done
    /\ classify' =
          [classify EXCEPT
              !.done = TRUE,
              !.out = ClassifyFiles([NotClassified EXCEPT
                                         !.new_dir_exists = classify.exists],
                                    classify.dirpath, classify.files, classify.results, 1)]
    /\ UNCHANGED <<visitVars, crop, storeVars, loop, parsed, best, aggVars, visit, hires,
                   camera, poster>>

\* ------------------------------------------------------- the class Visitation
\* the Visitation objects of the input set
VisitationObjects == {"v", "w"}
\* Visitation.start(), called without an argument
VisitationStart(o) ==
    /\ visit' = [visit EXCEPT !.objects[o].start_time = visit.start_default,
                              !.objects[o].called = Time(now),
                              !.objects[o].ended = FALSE]
    /\ UNCHANGED <<visitVars, crop, storeVars, loop, parsed, best, aggVars, hires, lateVars>>

\* Visitation.start(timestamp), called with the time of the call
VisitationStartAt(o) ==
    /\ visit' = [visit EXCEPT !.objects[o].start_time = Time(now),
                              !.objects[o].called = NoTime,
                              !.objects[o].ended = FALSE]
    /\ UNCHANGED <<visitVars, crop, storeVars, loop, parsed, best, aggVars, hires, lateVars>>

\* Visitation.end(timestamp)
VisitationEnd(o, timestamp) ==
    /\ visit' = [visit EXCEPT !.objects[o].end_time = Time(timestamp),
                              !.objects[o].ended = TRUE]
    /\ UNCHANGED <<visitVars, crop, storeVars, loop, parsed, best, aggVars, hires, lateVars>>

\* Visitation.duration(), for an object with both times set
duration(object) == object.end_time[1] - object.start_time[1]

\* ------------------------------- the high-resolution capture of the frame loop
\* photo_cooldown of main() in leroy.py is 0.5 s: on a clock of whole seconds
\* the test current_time - last_photo_time >= photo_cooldown asks for one
\* second; last_photo_time starts at 0, the epoch, which every clock is past
photo_cooldown == 1

\* handle_high_res_photo(high_res_frame): the photos it submits with
\* capture(), none when its import raises (the exception is caught in it).
\* visitations.py defines no add_padding_to_bbox, which the import statement
\* of the callback and the tests of the repository take from it: imported
\* tells whether the module visitations the process loaded provides the name
handle_high_res_photo(current_objs, vid, imported) ==
    LET \* int(max([obj.score for obj in current_objs]) * 100), 0 for no detection
        max_percent ==
            IF current_objs = <<>> THEN 0
            ELSE Percent(CHOOSE s \in {current_objs[k].score : k \in DOMAIN current_objs} :
                            \A k \in DOMAIN current_objs : current_objs[k].score <= s)
        \* the birds it crops: label "bird" and score >= 0.4
        birds == SelectSeq(current_objs,
                           LAMBDA o : LabelLower(o.id) = "bird" /\ o.score >= FilterThreshold)
    IN IF ~imported \/ vid = None THEN <<>>
       ELSE <<Capture("full_12mp", vid, max_percent)>>
              \o [k \in DOMAIN birds |-> Capture("boxed_12mp", vid, Percent(birds[k].score))]

\* one pass through the body of the while loop with its request of a
\* high-resolution photo: when update() returned, a bird was among the
\* detections, the cooldown is over and no capture is pending,
\* camera.capture_high_res_photo(handle_high_res_photo) starts the camera
\* thread with the detections of this frame
FrameAndCapture(detections, event) ==
    /\ FrameLoop(detections, event)
    /\ hires' = IF /\ last'.op = "frame"
                   /\ ~last'.raised
                   /\ FilterBirds(detections) # <<>>
                   /\ \/ hires.last_photo_time = NoTime
                      \/ now - hires.last_photo_time[1] >= photo_cooldown
                   /\ ~hires.pending
                   /\ event # "capture_raises"
                THEN [hires EXCEPT !.pending = TRUE,
                                   !.current_objs = detections,
                                   !.last_photo_time = Time(now)]
                ELSE hires
    /\ UNCHANGED <<crop, storeVars, parsed, best, aggVars, visit, lateVars>>

\* CameraManager._capture_high_res_thread: the switch of resolution fails,
\* the read returns no frame, the read raises, or a frame is read; with a
\* frame it calls the callback; in every case it clears the pending flag
CaptureThread(outcome, imported) ==
    /\ hires.pending
    /\ hires' = [hires EXCEPT
                    !.pending = FALSE,
                    !.subs = IF outcome = "frame"
                             THEN @ \o handle_high_res_photo(hires.current_objs,
                                                            visitation_id[LoopInstance],
                                                            imported)
                             ELSE @]
    /\ UNCHANGED <<visitVars, crop, storeVars, loop, parsed, best, aggVars, visit, lateVars>>

\* ------------------------------------------------------- the CameraManager
\* capture threads the frame loop starts in a run
MaxCaptures == 2
\* advances of the clock of the frame loop in a run
MaxCameraTicks == 2

\* the threads of a run, and the steps of _capture_high_res_thread a thread
\* can be at: not started, started, inside the with block, before line 165,
\* in the except clause before line 169, before and inside its with block,
\* ended
Threads == 1..MaxCaptures

\* what get_detection_frame() returned last: (False, None)
NoFrame == [ret |-> FALSE, resolution |-> "None"]

\* the CameraManager after __init__() and a successful initialize(), as
\* main() of leroy.py goes on with it: cap is "None", "open" or "closed" (a
\* VideoCapture that is not opened), device the resolution the opened device
\* was set to, lock the thread that holds _lock (0: nobody), callback the
\* request whose callback is stored (0: None); with the locals of the frame
\* loop (running, now, last_photo_time) and the requests it made
NewCamera ==
    [cap |-> "open", device |-> "detection", current_resolution |-> "detection",
     consecutive_failures |-> 0, lock |-> 0, pending |-> FALSE, callback |-> 0,
     pc |-> [t \in Threads |-> "not started"], called |-> 0,
     frame |-> NoFrame, running |-> TRUE, now |-> 0, last_photo_time |-> NoTime,
     requests |-> <<>>]

\* _switch_resolution(resolution): opened tells whether the reopened
\* VideoCapture isOpened()
switch_resolution(c, resolution, opened) ==
    IF c.current_resolution = resolution THEN c
    ELSE IF opened
    THEN [c EXCEPT !.cap = "open", !.device = resolution, !.current_resolution = resolution]
    ELSE [c EXCEPT !.cap = "closed"]

\* _reconnect(): _open_camera(self.current_resolution), up to
\* max_reconnect_attempts times; opened tells whether one attempt succeeds
reconnect(c, opened) ==
    IF opened
    THEN [c EXCEPT !.cap = "open", !.device = c.current_resolution,
                   !.consecutive_failures = 0]
    ELSE [c EXCEPT !.cap = "closed"]

\* get_detection_frame(), from the acquisition of _lock to its release:
\* opened is the outcome of a reconnect, ret the outcome of cap.read()
get_detection_frame(c, opened, ret) ==
    LET Read(c1) ==
            IF ret
            THEN [c1 EXCEPT !.consecutive_failures = 0,
                            !.frame = [ret |-> TRUE, resolution |-> c1.device]]
            ELSE IF c1.consecutive_failures + 1 >= 3
            THEN [reconnect([c1 EXCEPT !.consecutive_failures = @ + 1, !.cap = "None"],
                            opened)
                     EXCEPT !.frame = NoFrame]
            ELSE [c1 EXCEPT !.consecutive_failures = @ + 1, !.frame = NoFrame]
    IN IF c.cap # "open"
       THEN IF opened THEN Read(reconnect(c, TRUE))
            ELSE [reconnect(c, FALSE) EXCEPT !.frame = NoFrame]
       ELSE Read(c)

\* capture_high_res_photo(callback): the object after the call and the value
\* returned; the thread it starts is the next one not started
capture_high_res_photo(c, callback) ==
    IF c.pending THEN [c |-> c, returned |-> FALSE]
    ELSE [c |-> [c EXCEPT !.pending = TRUE, !.callback = callback,
                          !.pc = [t \in Threads |->
                                    IF t = CHOOSE n \in Threads :
                                              /\ c.pc[n] = "not started"
                                              /\ \A k \in Threads :
                                                    c.pc[k] = "not started" => n <= k
                                    THEN "started" ELSE c.pc[t]]],
          returned |-> TRUE]

\* one pass of the loop of main(): get_detection_frame() and, for a frame
\* with a bird, when the cooldown is over and no capture is pending, the
\* request of a high-resolution photo
CameraFrame(opened, ret, bird) ==
    LET Request(c) ==
            IF /\ c.frame.ret /\ bird
               /\ \/ c.last_photo_time = NoTime
                  \/ c.now - c.last_photo_time[1] >= photo_cooldown
               /\ ~c.pending
            THEN [capture_high_res_photo(c, Len(c.requests) + 1).c
                     EXCEPT !.last_photo_time = Time(c.now),
                            !.requests = Append(@, [time |-> c.now, pending |-> c.pending,
                                                    since |-> c.last_photo_time])]
            ELSE c
    IN /\ camera.running
       /\ camera.lock = 0
       /\ Len(camera.requests) < MaxCaptures \/ ~bird
       /\ camera' = Request(get_detection_frame(camera, opened, ret))
       /\ UNCHANGED <<visitVars, crop, storeVars, loop, parsed, best, aggVars, visit, hires,
                      classify, poster>>

\* time passes in the frame loop
CameraTick ==
    /\ camera.running
    /\ camera.now < MaxCameraTicks
    /\ camera' = [camera EXCEPT !.now = @ + 1]
    /\ UNCHANGED <<visitVars, crop, storeVars, loop, parsed, best, aggVars, visit, hires,
                   classify, poster>>

\* the thread enters a with self._lock block: the first one, line 144, or the
\* one of the except clause, line 172
ThreadAcquire(t) ==
    /\ camera.pc[t] \in {"started", "recover"}
    /\ camera.lock = 0
    /\ camera' = [camera EXCEPT !.lock = t,
                                !.pc[t] = IF @ = "started" THEN "locked"
                                          ELSE "recover locked"]
    /\ UNCHANGED <<visitVars, crop, storeVars, loop, parsed, best, aggVars, visit, hires,
                   classify, poster>>

\* the with block of lines 144-163: the switch to the photo resolution
\* (switched tells whether the device opens), cap.read() and the callback
\* (read: a frame and the callback returns, no frame, read() raises, or the
\* callback raises), and the switch back (back tells whether the device opens)
ThreadCapture(t, switched, read, back) ==
    LET \* lines 151-163 with the camera as the switch left it: read() of no
        \* VideoCapture raises AttributeError, read() of one that is not
        \* opened returns no frame
        Captured(photo, outcome) ==
            IF outcome \in {"read raises", "callback raises"}
            THEN [photo EXCEPT !.lock = 0, !.pc[t] = "except",
                               !.called = IF outcome = "callback raises"
                                          THEN photo.callback ELSE @]
            ELSE [switch_resolution(photo, "detection", back)
                     EXCEPT !.lock = 0, !.pc[t] = "clear",
                            !.called = IF outcome = "frame" THEN photo.callback ELSE @]
        Switched(photo) ==
            IF photo.current_resolution # "photo"
            THEN \* line 147 and the return of line 148
                 [photo EXCEPT !.pending = FALSE, !.lock = 0, !.pc[t] = "ended"]
            ELSE Captured(photo, IF photo.cap = "None" THEN "read raises"
                                 ELSE IF photo.cap = "closed" /\ read # "read raises"
                                 THEN "no frame"
                                 ELSE read)
    IN /\ camera.pc[t] = "locked"
       /\ camera' = Switched(switch_resolution(camera, "photo", switched))
       /\ UNCHANGED <<visitVars, crop, storeVars, loop, parsed, best, aggVars, visit, hires,
                      classify, poster>>

ThreadClear_Keeps(t) ==
    /\ camera.pc[t] \in {"clear", "except"}
    /\ camera' = [camera EXCEPT !.pc[t] = IF @ = "clear" THEN "ended" ELSE "recover"]
    /\ UNCHANGED <<visitVars, crop, storeVars, loop, parsed, best, aggVars, visit, hires,
                   classify, poster>>
\* self._photo_capture_pending = False: line 165, after which the thread
\* ends, or line 169 of the except clause, after which it goes on to switch back
ThreadClear(t) ==
    /\ camera.pc[t] \in {"clear", "except"}
    /\ camera' = [camera EXCEPT !.pending = FALSE,
                                !.pc[t] = IF @ = "clear" THEN "ended" ELSE "recover"]
    /\ UNCHANGED <<visitVars, crop, storeVars, loop, parsed, best, aggVars, visit, hires,
                   classify, poster>>

\* the with block of the except clause, lines 172-173
ThreadRecover(t, back) ==
    /\ camera.pc[t] = "recover locked"
    /\ camera' = [switch_resolution(camera, "detection", back)
                     EXCEPT !.lock = 0, !.pc[t] = "ended"]
    /\ UNCHANGED <<visitVars, crop, storeVars, loop, parsed, best, aggVars, visit, hires,
                   classify, poster>>

\* the loop of main() ends and its finally clause calls camera.release()
CameraRelease ==
    /\ camera.running
    /\ camera.lock = 0
    /\ camera' = [camera EXCEPT !.running = FALSE, !.cap = "None", !.pending = FALSE]
    /\ UNCHANGED <<visitVars, crop, storeVars, loop, parsed, best, aggVars, visit, hires,
                   classify, poster>>

\* ------------------------------------------------------- the BlueskyPoster
\* BlueskyPoster objects of a run
MaxPosters == 2
\* posts published in a run
MaxPosts == 2
\* the last day of the clock of a run
MaxDays == 2

Posters == 1..MaxPosters

\* a BlueskyPoster that has not been constructed
NoPoster == [constructed |-> FALSE, enabled |-> FALSE, authenticated |-> FALSE,
             client |-> FALSE, post_history |-> <<>>]

\* before the first run of visitation.py: no history file, no object, no
\* post; the clock shows a day and the hour of it, file is
\* storage/bluesky_post_history.json (the days of the timestamps it lists),
\* published the posts the Bluesky service accepted
NoPosts ==
    [now |-> [day |-> 1, hour |-> 18],
     file |-> [exists |-> FALSE, post_history |-> <<>>],
     posters |-> [i \in Posters |-> NoPoster],
     published |-> <<>>]

\* _can_post() of object self at the time at: posting_window_start is 19,
\* posting_window_end 21 and max_posts_per_day 1
can_post(self, at) ==
    IF ~self.enabled \/ ~self.authenticated THEN FALSE
    ELSE IF at.hour < 19 \/ at.hour >= 21 THEN FALSE
    ELSE LET posts_today == SelectSeq(self.post_history, LAMBDA p : p = at.day)
         IN IF Len(posts_today) >= 1 THEN FALSE
            ELSE IF posts_today # <<>> THEN FALSE
            ELSE TRUE

\* the end of the try block of a post method after the service accepted the
\* post: the entry appended to self.post_history and _save_post_history(),
\* which writes the list of the object to the file (written tells that it does not fail)
record_post(s, i, type, written) ==
    [s EXCEPT !.posters[i].post_history = Append(@, s.now.day),
              !.file = IF written
                       THEN [exists |-> TRUE,
                             post_history |-> Append(s.posters[i].post_history, s.now.day)]
                       ELSE @,
              !.published = Append(@, [day |-> s.now.day, hour |-> s.now.hour,
                                       type |-> type, by |-> i,
                                       authenticated |-> s.posters[i].authenticated])]

\* post_text(text): accepted tells whether create_record returns
post_text(s, i, accepted, written) ==
    IF ~can_post(s.posters[i], s.now) THEN s
    ELSE IF ~s.posters[i].client \/ ~s.posters[i].authenticated THEN s
    ELSE IF accepted THEN record_post(s, i, "text", written)
    ELSE s

\* post_with_image(text, image_path): exists is os.path.exists(image_path),
\* accepted tells whether the upload and the post return
post_with_image(s, i, exists, accepted, written) ==
    IF ~can_post(s.posters[i], s.now) THEN s
    ELSE IF ~s.posters[i].client \/ ~s.posters[i].authenticated THEN s
    ELSE IF ~exists THEN s
    ELSE IF accepted THEN record_post(s, i, "image", written)
    ELSE s

\* post_with_multiple_images(text, image_paths): images is "none" when no
\* path is given or exists, "raises" when an upload or create_record raises,
\* "created" when the post is accepted; text_created is the outcome of the
\* post_text it falls back to
post_with_multiple_images(s, i, images, text_created, written) ==
    IF ~can_post(s.posters[i], s.now) THEN s
    ELSE IF ~s.posters[i].client \/ ~s.posters[i].authenticated THEN s
    ELSE IF images = "created" THEN record_post(s, i, "multi_image", written)
    ELSE post_text(s, i, text_created, written)

\* post_daily_summary(visitations): photos tells whether select_best_photos
\* yields a photo whose file exists
post_daily_summary(s, i, photos, images, text_created, written) ==
    IF photos THEN post_with_multiple_images(s, i, images, text_created, written)
    ELSE post_text(s, i, text_created, written)

\* BlueskyPoster(): enabled is BLUESKY_ENABLED, login tells whether the
\* credentials are set and client.login returns, loaded whether json.load
\* of an existing history file returns
NewPoster(i, enabled, login, loaded) ==
    /\ poster' = [poster EXCEPT !.posters[i] =
                     [constructed |-> TRUE, enabled |-> enabled,
                      authenticated |-> enabled /\ login,
                      client |-> enabled /\ login,
                      post_history |-> IF poster.file.exists /\ loaded
                                       THEN poster.file.post_history ELSE <<>>]]
    /\ UNCHANGED <<visitVars, crop, storeVars, loop, parsed, best, aggVars, visit, hires,
                   classify, camera>>

\* a call of one of the four post methods on a constructed object
PostCall(i, method, flag, images, text_created, written) ==
    /\ poster.posters[i].constructed
    /\ Len(poster.published) < MaxPosts
    /\ poster' =
          CASE method = "post_text" -> post_text(poster, i, text_created, written)
            [] method = "post_with_image" ->
                  post_with_image(poster, i, flag, text_created, written)
            [] method = "post_with_multiple_images" ->
                  post_with_multiple_images(poster, i, images, text_created, written)
            [] method = "post_daily_summary" ->
                  post_daily_summary(poster, i, flag, images, text_created, written)
    /\ UNCHANGED <<visitVars, crop, storeVars, loop, parsed, best, aggVars, visit, hires,
                   classify, camera>>

\* an hour passes: 18, 19, 20, 21, and then 18 of the next day
PosterTick ==
    /\ poster.now.day < MaxDays \/ poster.now.hour < 21
    /\ poster' = [poster EXCEPT !.now = IF @.hour < 21
                                        THEN [day |-> @.day, hour |-> @.hour + 1]
                                        ELSE [day |-> @.day + 1, hour |-> 18]]
    /\ UNCHANGED <<visitVars, crop, storeVars, loop, parsed, best, aggVars, visit, hires,
                   classify, camera>>

\* --------------------------------------------------------- specifications
\* the process has just started: the module visitations is imported and the
\* Visitations objects are constructed, the frame loop is entered, nothing
\* has been cropped, stored, parsed, selected, aggregated or looked up, and no
\* Visitation object is started; the parts named in except are left to the
\* caller
Idle(except) ==
    \* id = uuid.uuid4(), evaluated once, in the class body of Visitation
    /\ Visitation_id = "uuid-1"
    /\ cls_bboxes = <<>>
    /\ bboxes = [i \in Instances |-> Unset]
    /\ visitations = [i \in Instances |-> <<>>]
    /\ visitation_id = [i \in Instances |-> None]
    /\ photo_per_visitation_count = [i \in Instances |-> 0]
    /\ full_photo_per_visitation_count = [i \in Instances |-> 0]
    /\ started_tracking = [i \in Instances |-> NoTime]
    /\ now = 0
    /\ ticks = 0
    /\ created = <<>>
    /\ startedAt = [i \in Instances |-> NoTime]
    /\ window = [i \in Instances |-> EmptyWindow]
    /\ last = [op |-> "init", inst |-> None, objs |-> <<>>,
               subs |-> <<>>, raised |-> FALSE]
    /\ loop = [state |-> "running", caught |-> "none", recovered |-> FALSE]
    /\ saves = <<>>
    /\ saved = [photo_type |-> None, usage |-> 0, fault |-> "none",
                image |-> FALSE, sidecar |-> FALSE, raised |-> FALSE]
    /\ IF "crop" \in except THEN TRUE
       ELSE crop = [bbox |-> <<0, 0, 0, 0>>, shape |-> <<0, 0>>,
                    px |-> NoRect, rect |-> NoRect]
    /\ IF "parsed" \in except THEN TRUE
       ELSE parsed = [fields |-> NoFields, path |-> "", out |-> NotParsed]
    /\ IF "best" \in except THEN TRUE
       ELSE best = [records |-> <<>>, done |-> FALSE, out |-> NotSelected]
    /\ IF "agg" \in except THEN TRUE
       ELSE agg = [records |-> <<>>, done |-> FALSE, out |-> NotAggregated]
    /\ IF "sci" \in except THEN TRUE
       ELSE sci = [common_name |-> "", labels_file |-> NoLabelsFile, out |-> NotResolved]
    /\ IF "run" \in except THEN TRUE
       ELSE run = [tree |-> <<>>, labels_file |-> NoLabelsFile, done |-> FALSE,
                   out |-> NotRun]
    \* a Visitation object before start() and end(): the class attributes
    \* start_time = None and end_time = None; called is the time of its last
    \* start() if that was without argument, ended tells that end() has been
    \* called since its last start(). The default of the parameter timestamp
    \* of start() is the value time.time() had when the def statement ran
    /\ visit = [start_default |-> Time(0),
                objects |-> [o \in VisitationObjects |->
                               [start_time |-> NoTime, end_time |-> NoTime,
                                called |-> NoTime, ended |-> FALSE]]]
    \* no high-resolution capture has been requested
    /\ hires = [pending |-> FALSE, current_objs |-> <<>>, last_photo_time |-> NoTime,
                subs |-> <<>>]
    /\ IF "classify" \in except THEN TRUE
       ELSE classify = [dirpath |-> "", files |-> <<>>, results |-> <<>>, exists |-> FALSE,
                        done |-> FALSE, out |-> NotClassified]
    /\ IF "camera" \in except THEN TRUE ELSE camera = [NewCamera EXCEPT !.running = FALSE]
    /\ IF "poster" \in except THEN TRUE ELSE poster = NoPosts

Init == Idle({})

Next ==
    \/ \E objs \in Frames : Update(LoopInstance, objs) /\ UNCHANGED <<crop, storeVars, loop, parsed, best, aggVars, visit, hires, lateVars>>
    \/ Reset(LoopInstance) /\ UNCHANGED <<crop, storeVars, loop, parsed, best, aggVars, visit, hires, lateVars>>
    \/ Tick /\ UNCHANGED <<crop, storeVars, loop, parsed, best, aggVars, visit, hires, lateVars>>

\* the class driven directly: leroy-picamera.py and the unit tests
Spec == Init /\ [][Next]_vars

NextLoop ==
    \/ \E detections \in Frames, event \in LoopEvents :
          FrameLoop(detections, event) /\ UNCHANGED <<crop, storeVars, parsed, best, aggVars, visit, hires, lateVars>>
    \/ Tick /\ UNCHANGED <<crop, storeVars, loop, parsed, best, aggVars, visit, hires, lateVars>>

\* the class driven by the frame loop of leroy.py
SpecLoop == Init /\ [][NextLoop]_vars

NextStore ==
    \* the frames fed to update(): a bird, a cat, nothing
    \/ \E objs \in {f \in Frames : \A k \in DOMAIN f : f[k].score \in {850, 900}} :
          UpdateAndCapture(objs) /\ UNCHANGED <<crop, loop, parsed, best, aggVars, visit, hires, lateVars>>
    \* psutil.disk_usage('/').percent, in tenths of a percent
    \/ \E k \in 1..MaxPending, percent \in {949, 950, 951}, fault \in SaveFaults :
          SaveThread(k, percent, fault) /\ UNCHANGED <<crop, loop, parsed, best, aggVars, visit, hires, lateVars>>

\* update() together with the save threads of the photos it submits
SpecStore == Init /\ [][NextStore]_vars

InitCrop ==
    /\ Idle({"crop"})
    \* boxes (xmin, ymin, xmax, ymax) with xmin <= xmax and ymin <= ymax, their
    \* normalised coordinates, in tenths, inside, on the edge of and outside
    \* [0, 1]; frame.shape as (height, width)
    /\ LET CropCoords == {-1, 0, 3, 7, 10, 11}
       IN crop \in [bbox : {b \in CropCoords \X CropCoords \X CropCoords \X CropCoords :
                                b[1] <= b[3] /\ b[2] <= b[4]},
                    shape : {<<480, 640>>, <<1536, 2048>>}, px : {NoRect}, rect : {NoRect}]

NextCrop == CropBoxed

\* the crop update() takes, for every box and frame shape
SpecCrop == InitCrop /\ [][NextCrop]_vars

InitParse ==
    /\ Idle({"parsed"})
    /\ LET \* the fields a legacy filename encodes; visitation_id "" for the
           \* 6-segment form
           LegacyFields ==
               [date : {"2024-01-15"}, time : {"14-30-25", "00-00-00"},
                detection_score : {"85", "0", "100"}, visitation_id : {"", "abc123"},
                species : {"american-robin", "house-finch", "robin"},
                classification_score : {"92", "5"}]
           \* the directories a file is found in
           LegacyDirs == {"/var/www/html/classified/2024-01-15/abc123/", "2024-01-15/", ""}
           \* the legacy encoding:
           \* boxed_<date>_<time>_<det>[_<visitationId>]_<species-with-hyphens>_<class>.png
           LegacyName(f) ==
               "boxed_" \o f.date \o "_" \o f.time \o "_" \o f.detection_score
                   \o (IF f.visitation_id = "" THEN "" ELSE "_" \o f.visitation_id)
                   \o "_" \o f.species \o "_" \o f.classification_score \o ".png"
           \* other paths the aggregator can meet: the formats of parse()'s
           \* docstring in their directory, and names that are no encoding at all
           OtherPaths ==
               {"/var/www/html/classified/2024-01-15/abc123/boxed_14-30-25_85_american-robin_92.png",
                "/var/www/html/classified/2024-01-15/abc123/boxed_12mp_14-30-25_85_american-robin_92.png",
                "/var/www/html/classified/2024-01-15/abc123/full_14-30-25_85.png",
                "/var/www/html/classified/2024-01-15/abc123/boxed_14-30-25_85.png",
                "2024-01-15/boxed_14-30-25_85_american-robin_92.png",
                "2024-01-15/full_12mp_14-30-25_85.png",
                "boxed_14-30-25_85_american-robin_92.png",
                "2024-01-15/boxed_25-61-61_85_robin_92.png",
                "x/full_a_b.png", "boxed", "", "/", "notes.txt"}
       IN parsed \in {[fields |-> f, path |-> d \o LegacyName(f), out |-> NotParsed] :
                          f \in LegacyFields, d \in LegacyDirs}
                     \cup {[fields |-> NoFields, path |-> q, out |-> NotParsed] :
                              q \in OtherPaths}

NextParse == Parse

\* parse() applied to every path of the input set
SpecParse == InitParse /\ [][NextParse]_vars

InitBest ==
    /\ Idle({"best"})
    /\ best \in [records : RecordLists, done : {FALSE}, out : {NotSelected}]

NextBest == SelectBest

\* the best-photo selection applied to every record list of the input set
SpecBest == InitBest /\ [][NextBest]_vars

NextShared ==
    \/ \E i \in Instances, objs \in Frames : Update(i, objs) /\ UNCHANGED <<crop, storeVars, loop, parsed, best, aggVars, visit, hires, lateVars>>
    \/ \E i \in Instances : Reset(i) /\ UNCHANGED <<crop, storeVars, loop, parsed, best, aggVars, visit, hires, lateVars>>

\* several Visitations objects in one process: the test suite constructs one
\* per test
SpecShared == Init /\ [][NextShared]_vars

InitAgg ==
    /\ Idle({"agg"})
    /\ agg \in [records : AggRecordLists, done : {FALSE}, out : {NotAggregated}]

NextAgg == AggregateGroup

\* the aggregation functions applied to every record list of the input set
SpecAgg == InitAgg /\ [][NextAgg]_vars

InitSci ==
    /\ Idle({"sci"})
    /\ LET \* labels files: the format of the docstring, the format of the
           \* iNaturalist label files, a list of names only, and an empty file
           DocumentedLabels == <<"1 american-robin (Turdus migratorius)",
                                 "2 robin (Erithacus rubecula)",
                                 "3 house-finch (Haemorhous mexicanus)",
                                 "4 blue-jay">>
           InatLabels == <<"0 Haemorhous cassinii (Cassin's Finch)",
                           "1 Turdus migratorius (American Robin)",
                           "2 background">>
           PlainLabels == <<"american-robin", "house-finch">>
           LabelsFiles ==
               {NoLabelsFile, LabelsFile(FALSE, FALSE, <<>>),
                LabelsFile(TRUE, FALSE, DocumentedLabels)}
                   \cup {LabelsFile(TRUE, TRUE, l) :
                            l \in {DocumentedLabels, InatLabels, PlainLabels, <<>>}}
           \* species names as the records carry them
           CommonNames == {"american-robin", "american robin", "robin", "house finch",
                           "House Finch", "blue jay", "finch", "unknown-bird",
                           "background", ""}
       IN sci \in [common_name : CommonNames, labels_file : LabelsFiles,
                   out : {NotResolved}]

NextSci == Resolve

\* get_scientific_name applied to every name and labels file of the input set
SpecSci == InitSci /\ [][NextSci]_vars

InitMain ==
    /\ Idle({"run"})
    /\ run \in [tree : Trees, labels_file : {NoLabelsFile}, done : {FALSE}, out : {NotRun}]

NextMain == Aggregate

\* main() of visitation.py run over every directory tree of the input set
SpecMain == InitMain /\ [][NextMain]_vars

NextVisit ==
    \/ \E o \in VisitationObjects : VisitationStart(o)
    \/ \E o \in VisitationObjects : VisitationStartAt(o)
    \* end() is given its timestamp 0 or 60 seconds after the clock of the call
    \/ \E o \in VisitationObjects, d \in {0, 60} : VisitationEnd(o, now + d)
    \/ Tick /\ UNCHANGED <<crop, storeVars, loop, parsed, best, aggVars, visit, hires, lateVars>>

\* Visitation objects started and ended while the clock advances
SpecVisit == Init /\ [][NextVisit]_vars

NextPipeline ==
    \/ \E detections \in Frames, event \in LoopEvents : FrameAndCapture(detections, event)
    \/ \E outcome \in {"switch_fails", "read_fails", "raises", "frame"}, imported \in BOOLEAN :
          CaptureThread(outcome, imported)
    \/ Tick /\ UNCHANGED <<crop, storeVars, loop, parsed, best, aggVars, visit, hires, lateVars>>

\* the frame loop of leroy.py together with the camera thread it starts
SpecPipeline == Init /\ [][NextPipeline]_vars

\* the storage directory of a visitation as the photo store and the legacy
\* store leave it: images with their sidecars (a boxed and a full one), an
\* image without sidecar, legacy names; what the classifier returns for
\* each file; and whether the target directory exists
InitClassify ==
    /\ Idle({"classify"})
    /\ LET SidecarTime == Stamp(Strptime("2024-01-15", "14-30-26"))
           Stored ==
               {File(get_image_filename("11111111-aaaa-4aaa-8aaa-aaaaaaaaaaaa", "boxed"),
                     Metadata("boxed", Value(SidecarTime), Value("v1"), Value(840), <<>>), 100),
                File(get_image_filename("22222222-bbbb-4bbb-8bbb-bbbbbbbbbbbb", "full"),
                     Metadata("full", Value(SidecarTime), Value("v1"), Value(840), <<>>), 0),
                File(get_image_filename("55555555-eeee-4eee-8eee-eeeeeeeeeeee", "full"),
                     NoMetadata, 0),
                File("boxed_14-30-25_84.png", NoMetadata, 100),
                File("boxed_12mp_14-30-25_84.png", NoMetadata, 100),
                File("full_14-30-25_84.png", NoMetadata, 0),
                File("notes.txt", NoMetadata, 0)}
       IN \E files \in {l \in SeqsUpTo(Stored, MaxStored) :
                            \A j, k \in DOMAIN l : j # k => l[j] # l[k]} :
             classify \in [dirpath : {"storage/detected/2024-01-15/v1"},
                           files : {files},
                           results : [DOMAIN files -> Results],
                           exists : BOOLEAN,
                           done : {FALSE},
                           out : {NotClassified}]

NextClassify == Classify

InitCamera == Idle({"camera"}) /\ camera = NewCamera

NextPoster ==
    \/ \E i \in Posters, enabled, login, loaded \in BOOLEAN :
          NewPoster(i, enabled, login, loaded)
    \/ \E i \in Posters, flag, text_created, written \in BOOLEAN,
          method \in {"post_text", "post_with_image", "post_with_multiple_images",
                      "post_daily_summary"},
          images \in {"none", "raises", "created"} :
          PostCall(i, method, flag, images, text_created, written)
    \/ PosterTick

\* the runs of visitation.py that construct a BlueskyPoster and post with it
SpecPoster == Init /\ [][NextPoster]_vars

NextCamera ==
    \/ \E opened, ret, bird \in BOOLEAN : CameraFrame(opened, ret, bird)
    \/ CameraTick
    \/ \E t \in Threads : ThreadAcquire(t)
    \/ \E t \in Threads, switched, back \in BOOLEAN,
          read \in {"frame", "no frame", "read raises", "callback raises"} :
          ThreadCapture(t, switched, read, back)
    \/ \E t \in Threads : ThreadClear(t)
    \/ \E t \in Threads, back \in BOOLEAN : ThreadRecover(t, back)
    \/ CameraRelease

\* the frame loop of leroy.py and the capture threads of its CameraManager
SpecCamera == InitCamera /\ [][NextCamera]_vars

\* the same, with every started thread running on to its end
SpecCameraLive ==
    SpecCamera /\ \A t \in Threads :
                     /\ WF_vars(ThreadAcquire(t))
                     /\ WF_vars(\E switched, back \in BOOLEAN,
                                   read \in {"frame", "no frame", "read raises",
                                             "callback raises"} :
                                   ThreadCapture(t, switched, read, back))
                     /\ WF_vars(ThreadClear(t))
                     /\ WF_vars(\E back \in BOOLEAN : ThreadRecover(t, back))

\* classify.py run over the directories of the photo store
SpecClassify == InitClassify /\ [][NextClassify]_vars

\* ------------------------------------------------------------------ claims
Min(a, b) == IF a <= b THEN a ELSE b

\* the label file names the detection's class "bird"
BirdLabel(o) == o.id \in DOMAIN labels /\ labels[o.id] = "bird"

\* this step is a call of update() on instance i, directly or from the frame loop
CallStep(i) == last'.op \in {"update", "frame"} /\ last'.inst = i /\ ticks' = ticks

\* the detections that reach update() in the call l
Reaching(l) ==
    IF l.op = "frame"
    THEN SelectSeq(l.objs, LAMBDA o : BirdLabel(o) /\ o.score >= FilterThreshold)
    ELSE l.objs

\* update() saw a bird above its own percent bound in the call l
SeesBird(l) ==
    \E k \in DOMAIN Reaching(l) :
        BirdLabel(Reaching(l)[k]) /\ Reaching(l)[k].score \div 10 > BirdPercentMin

\* the design's test: a bird with a score strictly above the threshold 0.40
DesignQualifies(o) == BirdLabel(o) /\ o.score > FilterThreshold

\* the visitation of instance i has reached its timeout boundary
TimedOut(i) == startedAt[i] # NoTime /\ now - startedAt[i][1] >= visitation_max_seconds

C2_TimeoutCloses ==
    [][\A i \in Instances :
        (CallStep(i) /\ TimedOut(i) /\ ~SeesBird(last'))
            => /\ visitation_id'[i] = None
               /\ photo_per_visitation_count'[i] = 0
               /\ full_photo_per_visitation_count'[i] = 0]_vars

\* C3: an update() at or after t0 + S whose frame has a qualifying bird keeps
\* visitation_id and moves started_tracking forward.
C3_ExtensionRearms ==
    [][\A i \in Instances :
        (CallStep(i) /\ TimedOut(i)
            /\ \E k \in DOMAIN Reaching(last') : DesignQualifies(Reaching(last')[k]))
            => /\ visitation_id'[i] = visitation_id[i]
               /\ started_tracking'[i] # NoTime
               /\ started_tracking'[i][1] > startedAt[i][1]]_vars

C5_CountWithinMax ==
    \A i \in Instances : photo_per_visitation_count[i] <= photo_per_visitation_max

\* C6: one full photo per visitation: once the window has its full photo, a
\* further bird frame of the same window submits no other one.
C6_FullOnce ==
    [][\A i \in Instances :
        (CallStep(i) /\ SeesBird(last') /\ window[i].full >= 1
            /\ window'[i].qualifying > window[i].qualifying)
            => window'[i].full = window[i].full]_vars

\* C7: after reset() visitation_id is None and both counters are 0.
C7_ResetClears ==
    last.op = "reset"
        => /\ visitation_id[last.inst] = None
           /\ photo_per_visitation_count[last.inst] = 0
           /\ full_photo_per_visitation_count[last.inst] = 0

\* C8: no two Visitation objects created in a run have the same id.
C8_UniqueIds ==
    \A j, k \in DOMAIN created : j # k => created[j] # created[k]

\* C9: a frame whose detections are all birds with a score of at most 0.40
\* creates no visitation, increments no counter and submits no photo,
\* whether update() is called directly or by the frame loop.
C9_ThresholdStrict ==
    [][\A i \in Instances :
        (CallStep(i) /\ last'.objs # <<>>
            /\ \A k \in DOMAIN last'.objs :
                  BirdLabel(last'.objs[k]) /\ last'.objs[k].score <= FilterThreshold)
            => /\ visitation_id'[i] = visitation_id[i]
               /\ photo_per_visitation_count'[i] = photo_per_visitation_count[i]
               /\ full_photo_per_visitation_count'[i] = full_photo_per_visitation_count[i]
               /\ last'.subs = <<>>]_vars

\* C10: an update() before the timeout boundary whose detections are all
\* non-bird changes neither visitation_id nor a counter and submits no photo.
C10_NonBirdIgnored ==
    [][\A i \in Instances :
        (CallStep(i) /\ last'.op = "update" /\ last'.objs # <<>> /\ ~TimedOut(i)
            /\ \A k \in DOMAIN last'.objs : ~BirdLabel(last'.objs[k]))
            => /\ visitation_id'[i] = visitation_id[i]
               /\ photo_per_visitation_count'[i] = photo_per_visitation_count[i]
               /\ full_photo_per_visitation_count'[i] = full_photo_per_visitation_count[i]
               /\ last'.subs = <<>>]_vars

\* C11: an update() with an empty detection list while no visitation is active
\* (visitation_id is None) is a no-op: visitation_id, both counters and the
\* tracked boxes keep their values, no photo is submitted, nothing is raised.
C11_EmptyIsNoOp ==
    [][\A i \in Instances :
        (CallStep(i) /\ Reaching(last') = <<>> /\ visitation_id[i] = None)
            => /\ visitation_id'[i] = None
               /\ photo_per_visitation_count'[i] = photo_per_visitation_count[i]
               /\ full_photo_per_visitation_count'[i] = full_photo_per_visitation_count[i]
               /\ bboxes'[i] = bboxes[i]
               /\ cls_bboxes' = cls_bboxes
               /\ last'.subs = <<>>
               /\ ~last'.raised]_vars

\* an update() with an empty list has just returned on an instance without a visitation
C11_Witness ==
    \E i \in Instances :
        /\ last.op = "update" /\ last.inst = i /\ last.objs = <<>>
        /\ visitation_id[i] = None /\ ~last.raised /\ last.subs = <<>>
        /\ ticks > 0

\* C12: update() cannot fail: in every reachable state and for every
\* detection list, the empty list after a bird frame included, the call
\* returns without raising.
C12_UpdateNeverRaises == last.op \in {"update", "frame"} => ~last.raised

\* C13: the crop rectangle (x0, y0, x1, y1) of a boxed photo lies inside the
\* frame for every bounding box, zero-area and out-of-bounds boxes included:
\* 0 <= x0 <= x1 <= width and 0 <= y0 <= y1 <= height.
C13_CropInsideFrame ==
    crop.rect # NoRect
        => /\ 0 <= crop.rect[1] /\ crop.rect[1] <= crop.rect[3] /\ crop.rect[3] <= crop.shape[2]
           /\ 0 <= crop.rect[2] /\ crop.rect[2] <= crop.rect[4] /\ crop.rect[4] <= crop.shape[1]

\* C14: state is never shared across Visitations instances: an operation on
\* one instance leaves the visitation_id, both counters and the tracked
\* boxes of every other instance unchanged, and an instance without a
\* visitation still creates one on its first qualifying bird.
C14_InstancesIndependent ==
    [][\A i \in Instances : \A j \in Instances \ {i} :
        /\ (last'.inst = i /\ last'.op \in {"update", "reset"})
              => /\ visitation_id'[j] = visitation_id[j]
                 /\ photo_per_visitation_count'[j] = photo_per_visitation_count[j]
                 /\ full_photo_per_visitation_count'[j] = full_photo_per_visitation_count[j]
                 /\ SelfBboxes(bboxes'[j], cls_bboxes') = SelfBboxes(bboxes[j], cls_bboxes)
        /\ (CallStep(j) /\ SeesBird(last') /\ visitation_id[j] = None)
              => visitation_id'[j] # None /\ Len(created') = Len(created) + 1]_vars

\* C15: photo saves are fire-and-forget. An update() that submits photos
\* returns with its counters advanced while their saves have not run yet,
\* and a save() that runs never raises, whatever step of it fails, and
\* touches no field of the state machine.
C15_SaveFireAndForget ==
    [][/\ Len(saves') < Len(saves)
            => /\ ~saved'.raised
               /\ visitation_id' = visitation_id
               /\ photo_per_visitation_count' = photo_per_visitation_count
               /\ full_photo_per_visitation_count' = full_photo_per_visitation_count
       /\ \A i \in Instances :
            (CallStep(i) /\ Len(saves') >= Len(saves) /\ last'.subs # <<>>)
                => /\ ~last'.raised
                   /\ photo_per_visitation_count'[i] + full_photo_per_visitation_count'[i]
                        = photo_per_visitation_count[i] + full_photo_per_visitation_count[i]
                            + Len(last'.subs)
                   /\ saves' = saves \o last'.subs
                   /\ saved' = saved]_vars

\* a save() hit an exception in one of its steps, and update() has submitted
\* photos again since
C15_Witness ==
    /\ saved.fault \in {"disk_usage", "mkdirs", "shape", "imwrite_raises"}
    /\ saved.photo_type = "full"
    /\ saved.usage < 950
    /\ ~saved.image /\ ~saved.raised
    /\ last.op = "update" /\ last.subs # <<>> /\ saves = last.subs
    /\ photo_per_visitation_count[LoopInstance] >= 2

\* C16: disk usage is checked before every photo write: a save() that runs
\* at a usage of 95% or more writes neither the image nor the sidecar and
\* returns normally, and one that runs below 95% with no failing step writes
\* both.
C16_DiskCheck ==
    saved.photo_type # None
        => /\ saved.usage >= 950 => ~saved.image /\ ~saved.sidecar /\ ~saved.raised
           /\ (saved.usage < 950 /\ saved.fault = "none") => saved.image /\ saved.sidecar

\* a save() ran with the disk at exactly 95% and no failing step, and wrote nothing
C16_Witness ==
    /\ saved.photo_type = "boxed" /\ saved.usage = 950 /\ saved.fault = "none"
    /\ ~saved.image /\ ~saved.sidecar /\ ~saved.raised

\* C17: nothing escapes the frame loop: when processing a frame raises, in
\* reading the frame, in detection, in update() or in scheduling a capture,
\* the exception is caught inside the loop, which stays running and goes on
\* to process the next frame.
C17_LoopSurvives ==
    /\ loop.state # "crashed"
    /\ (loop.caught \notin {"none", "KeyboardInterrupt"} /\ ~loop.recovered)
          => loop.state = "running"

\* update() raised inside the loop and a later frame was processed to its end
C17_Witness ==
    /\ loop.caught = "update_raises" /\ loop.recovered /\ loop.state = "running"
    /\ last.op = "frame" /\ ~last.raised /\ last.subs # <<>>

\* C18: parser round-trip (P4): parse() of a path whose filename is the
\* legacy encoding of a record returns that record's detection score,
\* classification score, species (hyphens replaced by spaces) and
\* visitation_id (the embedded id of the 7-segment form, "" for the
\* 6-segment form).
C18_ParseRoundTrip ==
    (parsed.out # NotParsed /\ parsed.fields # NoFields)
        => /\ ~parsed.out.raised
           /\ parsed.out.detection_score = parsed.fields.detection_score
           /\ parsed.out.classification_score = parsed.fields.classification_score
           /\ parsed.out.species = Replace(parsed.fields.species, "-", " ")
           /\ parsed.out.visitation_id = parsed.fields.visitation_id

\* C19: parse() never raises: for every path string it returns a record,
\* falling back to defaults (empty species, scores 0, current time).
C19_ParseNeverRaises == parsed.out # NotParsed => ~parsed.out.raised

\* the non-full records of a list and the first of those with the highest total
NonFull(records) == {k \in DOMAIN records : ~IsFull(records[k])}
ArgMax(records) ==
    CHOOSE k \in NonFull(records) :
        \A j \in NonFull(records) :
            \/ TotalScore(records[j]) < TotalScore(records[k])
            \/ TotalScore(records[j]) = TotalScore(records[k]) /\ k <= j

\* C20: best-photo selection is the argmax of classification_score +
\* detection_score + clarity_score over the non-full records, ties going to
\* the first occurrence: find_best_photo returns its index and
\* find_best_photo_for_species returns the record.
C20_BestIsArgMax ==
    (best.done /\ NonFull(best.records) # {})
        => /\ best.out.index = ArgMax(best.records)
           /\ best.out.record = best.records[ArgMax(best.records)]

\* ---------------------------------------------------- claims on the aggregator
\* the positions of the records of a species in a record list
RecordsOf(records, species) == {k \in DOMAIN records : records[k].species = species}
SpeciesIn(records) == {records[k].species : k \in DOMAIN records}

\* the position at which a species first appears in a record list
FirstAppearance(records, species) ==
    CHOOSE k \in RecordsOf(records, species) : \A j \in RecordsOf(records, species) : k <= j

\* a filename marks a full image
MarksFull(filename) == Occurrences(filename, "full", 1) # {}

\* C21: for every group of records with at least one record that is not a
\* full image, the best photo of the visitation and the best photo of each
\* species observation is a record whose filename does not mark it as full,
\* whatever the scores are (all totals 0 included).
C21_BestNeverFull ==
    agg.done =>
        /\ (\E k \in DOMAIN agg.records : ~MarksFull(agg.records[k].filename))
              => ~MarksFull(agg.records[agg.out.best_photo_index].filename)
        /\ \A o \in DOMAIN agg.out.observations :
              (\E k \in RecordsOf(agg.records, agg.out.observations[o].common_name) :
                  ~MarksFull(agg.records[k].filename))
                 => ~MarksFull(agg.out.observations[o].best_photo)

\* the sum of the classification scores of the records at the positions S
RECURSIVE ScoreSum(_, _)
ScoreSum(records, S) ==
    IF S = {} THEN 0
    ELSE LET k == CHOOSE j \in S : TRUE
         IN Number(records[k].classification_score) + ScoreSum(records, S \ {k})

\* C22: find_all_species returns one entry per distinct species; its count is
\* the number of records of the species, first_seen and last_seen are the
\* least and the greatest datetime of these records, and avg_confidence is
\* the mean of their classification scores divided by 100, for record lists
\* in any order.
C22_SpeciesAggregation ==
    agg.done =>
        LET all == agg.out.all_species
        IN /\ Len(all) = Cardinality(SpeciesIn(agg.records))
           /\ \A e \in DOMAIN all :
                LET of == RecordsOf(agg.records, all[e].species)
                IN /\ of # {}
                   /\ all[e].count = Cardinality(of)
                   /\ \E k \in of : all[e].first_seen = agg.records[k].datetime
                   /\ \E k \in of : all[e].last_seen = agg.records[k].datetime
                   /\ \A k \in of : /\ all[e].first_seen <= agg.records[k].datetime
                                    /\ agg.records[k].datetime <= all[e].last_seen
                   /\ all[e].avg_confidence.num * Cardinality(of) * 100
                         = ScoreSum(agg.records, of) * all[e].avg_confidence.den

\* a species has two records in the list, the later one first
C22_Witness ==
    /\ agg.done
    /\ Len(agg.out.all_species) >= 2
    /\ \E j, k \in DOMAIN agg.records :
          /\ j < k
          /\ agg.records[j].species = agg.records[k].species
          /\ agg.records[j].datetime > agg.records[k].datetime
          /\ agg.records[k].classification_score # agg.records[j].classification_score

\* C23: find_species returns a species no other species of the list has more
\* records than, and the empty string for the empty list.
C23_MostFrequent ==
    agg.done =>
        IF agg.records = <<>> THEN agg.out.species = ""
        ELSE /\ agg.out.species \in SpeciesIn(agg.records)
             /\ \A s \in SpeciesIn(agg.records) :
                   Cardinality(RecordsOf(agg.records, s))
                      <= Cardinality(RecordsOf(agg.records, agg.out.species))

\* C24: create_species_observations returns one observation per distinct
\* species, sorted by descending count, species of equal count in the order
\* of their first appearance in the records.
C24_ObservationsSorted ==
    agg.done =>
        LET obs == agg.out.observations
        IN /\ Len(obs) = Cardinality(SpeciesIn(agg.records))
           /\ \A o \in DOMAIN obs :
                 /\ obs[o].common_name \in SpeciesIn(agg.records)
                 /\ obs[o].count = Cardinality(RecordsOf(agg.records, obs[o].common_name))
           /\ \A o, p \in DOMAIN obs :
                 o < p =>
                    /\ obs[o].common_name # obs[p].common_name
                    /\ obs[o].count >= obs[p].count
                    /\ obs[o].count = obs[p].count
                          => FirstAppearance(agg.records, obs[o].common_name)
                                < FirstAppearance(agg.records, obs[p].common_name)

\* three species: the one with two records is not the one seen first, and
\* the other two have a record each
C24_Witness ==
    /\ agg.done
    /\ Len(agg.out.observations) = 3
    /\ agg.out.observations[1].count = 2
    /\ agg.out.observations[1].common_name # agg.records[1].species
    /\ agg.out.observations[2].count = agg.out.observations[3].count

\* the line of a labels file that is the label of a species: the name, with
\* hyphens for spaces, is one of its fields
IsLabelLineOf(line, common_name) ==
    /\ common_name # ""
    /\ \E k \in DOMAIN Split(Lower(line), " ") :
          Split(Lower(line), " ")[k] = Replace(Lower(common_name), " ", "-")

\* C25: get_scientific_name returns "Unknown" when no labels file is given,
\* when the file does not exist and when no line of it is the label of the
\* common name, and it returns the parenthesised (Genus species) of the
\* species' own label line when that line has one.
C25_ScientificName ==
    sci.out # NotResolved =>
        LET lines == sci.labels_file.lines
            own == {k \in DOMAIN lines : IsLabelLineOf(lines[k], sci.common_name)}
        IN IF sci.labels_file.path = "None" \/ ~sci.labels_file.exists \/ own = {}
           THEN sci.out = "Unknown"
           ELSE \A k \in own :
                   re_search(lines[k], TRUE) # <<>> =>
                       sci.out = re_search(lines[k], TRUE)[1]

\* the orders in which the files of a list can be enumerated
Reorderings(files) ==
    {[k \in DOMAIN files |-> files[p[k]]] :
        p \in {q \in [DOMAIN files -> DOMAIN files] :
                  \A j, k \in DOMAIN files : j # k => q[j] # q[k]}}

\* the visitation groups of an output: the id and the member records of each
Groups(out) ==
    {<<out.visitations[v].visitation_id,
       {out.visitations[v].records[k].filename : k \in DOMAIN out.visitations[v].records}>> :
        v \in DOMAIN out.visitations}

\* C26: every order in which the files of a directory are enumerated yields
\* the same set of visitation groups, same ids and same member records, also
\* for records of different visitations with equal timestamps.
C26_OrderIndependent ==
    (run.done /\ Len(run.tree) = 1) =>
        \A files \in Reorderings(run.tree[1].files) :
            Groups(main(<<Dir(run.tree[1].dirpath, files)>>, run.labels_file)) = Groups(run.out)

\* the filenames of the records of an output
RecordNames(out) ==
    UNION {{out.visitations[v].records[k].filename : k \in DOMAIN out.visitations[v].records} :
              v \in DOMAIN out.visitations}

\* C27: every run writes the JSON document and prints the summary, and the
\* records a file yields when it is aggregated alone are in the output of
\* every run over a tree that holds the file, whatever the other files are.
C27_OutputAlways ==
    run.done =>
        /\ run.out.json_written
        /\ run.out.summary_printed
        /\ \A d \in DOMAIN run.tree : \A k \in DOMAIN run.tree[d].files :
              RecordNames(main(<<Dir(run.tree[d].dirpath, <<run.tree[d].files[k]>>)>>,
                               run.labels_file))
                 \subseteq RecordNames(run.out)

\* a legacy boxed name, and the logical photo it is a file of: the name
\* without the mark of the 12MP duplicate
IsLegacyBoxed(name) ==
    EndsWith(name, ".png") /\ ~is_uuid_format(name) /\ Contains(name, "boxed")
LogicalPhoto(name) == Replace(name, "_12mp", "")

\* C28: of the files of one logical photo exactly one is in the aggregation,
\* the 12MP variant when both exist and the standard file when it has no
\* 12MP duplicate.
C28_Prefer12mp ==
    (run.done /\ run.out.json_written) =>
        \A d \in DOMAIN run.tree : \A k \in DOMAIN run.tree[d].files :
            LET dir == run.tree[d]
                name == dir.files[k].name
                variants == {dir.files[j].name : j \in {i \in DOMAIN dir.files :
                                LogicalPhoto(dir.files[i].name) = LogicalPhoto(name)}}
                chosen == IF \E n \in variants : Contains(n, "_12mp")
                          THEN CHOOSE n \in variants : Contains(n, "_12mp")
                          ELSE name
            IN IsLegacyBoxed(name) =>
                  {n \in variants :
                      Replace(dir.dirpath \o "/" \o n, "/var/www/html", "") \in RecordNames(run.out)}
                     = {chosen}

\* ------------------------------------- claims on Visitation and on the pipeline
\* C29: after start() without an argument and end(t), duration() is t minus
\* the time at which start() was called, however long before the call the
\* module was imported, for every Visitation object.
C29_StartRecordsCallTime ==
    \A o \in VisitationObjects :
        (visit.objects[o].called # NoTime /\ visit.objects[o].ended)
           => duration(visit.objects[o])
                 = visit.objects[o].end_time[1] - visit.objects[o].called[1]

\* C30: for every visitation the photos submitted to the photo store, by
\* update() and by the high-resolution callback together, stay within the
\* quotas: at most photo_per_visitation_max boxed photos and at most
\* full_photo_per_visitation_max full photos, however long the bird stays.
C30_PipelineQuota ==
    /\ window[LoopInstance].boxed + Count(hires.subs, "boxed_12mp")
          <= photo_per_visitation_max
    /\ window[LoopInstance].full + Count(hires.subs, "full_12mp")
          <= full_photo_per_visitation_max

\* the file save() leaves of a submitted photo when nothing fails: the image
\* named by get_image_filename and, found next to it by
\* find_metadata_for_image, the sidecar of create_metadata with the
\* photo_type it was submitted with
Persisted(photo) ==
    File(get_image_filename("66666666-ffff-4fff-8fff-ffffffffffff", photo.photo_type),
         Metadata(photo.photo_type, Value(0), Value(photo.visitation_id),
                  Value(photo.score * 10), <<>>),
         0)

\* the photos the pipeline has handed to capture(): by the last update() and
\* by the high-resolution callbacks
Submitted == {last.subs[k] : k \in DOMAIN last.subs} \cup {hires.subs[k] : k \in DOMAIN hires.subs}

C33_SubmissionsTagged ==
    \A k \in DOMAIN last.subs : last.subs[k].visitation_id # None

\* C34: the output of a run holds at most one visitation per visitation_id:
\* records of one visitation_id are in one summary, also when they lie in
\* different directories of the tree.
C34_OneSummaryPerId ==
    run.done =>
        \A v, w \in DOMAIN run.out.visitations :
            v # w => run.out.visitations[v].visitation_id # run.out.visitations[w].visitation_id

\* C35: when save() has returned, with or without a failure, the image is on
\* disk exactly if its sidecar is: never one of the two files without the other.
C35_ImageWithSidecar ==
    saved.image <=> saved.sidecar

\* the boxed photos of the storage directory that the photo store saved: a
\* name of the UUID format with a sidecar of photo_type "boxed"
StoredBoxed ==
    {k \in DOMAIN classify.files :
        /\ is_uuid_format(classify.files[k].name)
        /\ classify.files[k].metadata # NoMetadata
        /\ classify.files[k].metadata.photo_type = "boxed"}

\* C32: after classify has run over the storage tree, every boxed photo the
\* photo store saved with its sidecar, for which the classifier returned a
\* result, is in the classified tree with a classifications entry in its
\* sidecar, and an aggregation run over the classified tree has a record of it.
C32_BoxedPickedUp ==
    classify.done =>
        \A k \in StoredBoxed :
            (~classify.results[k].raises /\ classify.results[k].top # <<>>) =>
                /\ \E j \in DOMAIN classify.out.moved :
                      /\ classify.out.moved[j].name = classify.files[k].name
                      /\ classify.out.moved[j].metadata.classifications # <<>>
                /\ \E name \in RecordNames(main(<<Dir(get_new_dir(classify.dirpath),
                                                      classify.out.moved)>>, NoLabelsFile)) :
                      EndsWith(name, classify.files[k].name)

\* C36: a high-resolution capture always completes: whenever a capture is
\* pending, _photo_capture_pending becomes False again, and whenever a thread
\* holds the camera lock, the lock is released again, on every path of the
\* thread.
C36_CaptureCompletes ==
    /\ camera.pending ~> ~camera.pending
    /\ (camera.lock # 0) ~> (camera.lock = 0)

\* a thread has come to its end through the except clause, after its
\* callback was called and raised, and the flag is clear and the lock free
C36_Witness ==
    /\ \E t \in Threads : camera.pc[t] = "ended"
    /\ camera.called > 0
    /\ ~camera.pending
    /\ camera.lock = 0
    /\ camera.running

\* the capture threads that have been started and have not ended
InFlight == {t \in Threads : camera.pc[t] \notin {"not started", "ended"}}

\* C37: every frame get_detection_frame() returns is read with the camera set
\* to the detection resolution, and when no capture thread is under way the
\* opened camera is at the detection resolution.
C37_DetectionResolution ==
    /\ camera.frame.ret => camera.frame.resolution = "detection"
    /\ (InFlight = {} /\ camera.cap = "open") => camera.device = "detection"

\* C38: at most one capture thread is under way at any time; while a capture
\* is pending capture_high_res_photo() returns False and changes nothing; and
\* every request of the frame loop is made with no capture pending and at
\* least photo_cooldown after the request before it.
C38_SingleCapture ==
    /\ Cardinality(InFlight) <= 1
    /\ camera.pending =>
          capture_high_res_photo(camera, Len(camera.requests) + 1)
             = [c |-> camera, returned |-> FALSE]
    /\ \A k \in DOMAIN camera.requests :
          /\ ~camera.requests[k].pending
          /\ camera.requests[k].since # NoTime =>
                camera.requests[k].time - camera.requests[k].since[1] >= photo_cooldown

\* C39: the posts published are at most one per calendar day, each within
\* the posting window (hour 19 or 20) and by an authenticated object, over
\* every sequence of calls of the post methods and of constructions of
\* BlueskyPoster objects.
C39_OnePostPerDay ==
    /\ \A j, k \in DOMAIN poster.published :
          j # k => poster.published[j].day # poster.published[k].day
    /\ \A k \in DOMAIN poster.published :
          /\ poster.published[k].hour >= 19 /\ poster.published[k].hour < 21
          /\ poster.published[k].authenticated
====
